---- MODULE Spec2Model ----
(***************************************************************************)
(* A model of the Lox tree-walking interpreter (dqkqd/lox).                *)
(*                                                                         *)
(* The pipeline of Lox::run (scan, parse, resolve, interpret) is a state   *)
(* machine over a program drawn from a library of statements.  Resolver    *)
(* and Interpreter are the recursive visitors of the source, written as    *)
(* RECURSIVE operators over the statement tree; an environment frame is a  *)
(* cell of a heap (frames), and an Rc<RefCell<EnvironmentNode>> is the     *)
(* index of its cell, so two links are the same object iff they are the    *)
(* same index.                                                             *)
(***************************************************************************)
EXTENDS Integers, Sequences, FiniteSets, TLC

VARIABLES
    source,             \* the input of Lox::run: scanner/parser outcome and statements
    pc,                 \* position inside Lox::run
    had_scan_error,     \* Lox.had_scan_error
    had_parse_error,    \* Lox.had_parse_error
    had_resolve_error,  \* Lox.had_resolve_error
    had_runtime_error,  \* Lox.had_runtime_error
    resolver,           \* the Resolver of this run (scopes, errors, function_type, class_level)
    interpreter,        \* the Interpreter (environment, heap of frames, locals, instances, writer)
    next_stmt,          \* the iterator position of resolve / interpret over the statements
    collected,          \* the errors filter_map has collected so far
    parser,             \* the Parser of this run (tokens, position, errors, statements)
    scanner,            \* the Scanner of this run (characters, buffer, tokens, errors)
    repl                \* run_prompt: lines to read, what it wrote, what it ran

vars == <<source, pc, had_scan_error, had_parse_error, had_resolve_error,
          had_runtime_error, resolver, interpreter, next_stmt, collected, parser,
          scanner, repl>>

(***************************************************************************)
(* Bounds of the model.                                                    *)
(***************************************************************************)
MaxStatements == 3

MaxFragments == 3

MaxErrors == 4

MaxNumber == 2

MaxTokens == 12

MaxChars == 3

MaxLines == 2

MaxArguments == 3

(***************************************************************************)
(* Option<T> and Result<T, E>.                                             *)
(***************************************************************************)
None == [some |-> FALSE]

Some(v) == [some |-> TRUE, v |-> v]

EmptyMap == [n \in {} |-> 0]

\* HashMap::insert
Insert(map, key, value) == [k \in DOMAIN map \cup {key} |-> IF k = key THEN value ELSE map[k]]

(***************************************************************************)
(* Object (object.rs), extended by the variants the interpreter uses.      *)
(***************************************************************************)
Null == [k |-> "Null"]

Number(n) == [k |-> "Number", n |-> n]

String(s) == [k |-> "String", s |-> s]

Bool(b) == [k |-> "Bool", b |-> b]

\* LoxFunction { declaration, closure } plus the is_initializer flag its callers pass
LoxFunction(declaration, closure, is_initializer) ==
    [k |-> "LoxFunction", declaration |-> declaration, closure |-> closure,
     is_initializer |-> is_initializer]

NativeClock == [k |-> "NativeFunction", name |-> "clock"]

LoxClass(declaration, superclass, methods) ==
    [k |-> "LoxClass", declaration |-> declaration, superclass |-> superclass,
     methods |-> methods]

LoxInstance(id, lox_class) == [k |-> "LoxInstance", id |-> id, lox_class |-> lox_class]

IsCallable(v) == v.k \in {"LoxFunction", "NativeFunction", "LoxClass"}

is_number(v) == v.k = "Number"

is_truthy(v) ==
    CASE v.k = "Null" -> FALSE
      [] v.k = "Bool" -> v.b
      [] OTHER -> TRUE

\* Callable::name
CallableName(c) ==
    CASE c.k = "LoxFunction" -> c.declaration.name
      [] c.k = "NativeFunction" -> c.name
      [] OTHER -> c.declaration.name

\* ToString for Object, LoxCallable and LoxInstance
to_string(v) ==
    CASE v.k = "Null" -> ""
      [] v.k = "Number" -> ToString(v.n)
      [] v.k = "String" -> v.s
      [] v.k = "Bool" -> (IF v.b THEN "true" ELSE "false")
      [] v.k = "LoxFunction" -> "<fn " \o CallableName(v) \o ">"
      [] v.k = "NativeFunction" -> "<fn " \o CallableName(v) \o ">"
      [] v.k = "LoxClass" -> "<class " \o CallableName(v) \o ">"
      [] OTHER -> "<" \o CallableName(v.lox_class) \o " instance, id " \o ToString(v.id) \o ">"

(***************************************************************************)
(* Results of the visitors: Ok(v) or Err(e), with the state reached.       *)
(***************************************************************************)
Ok(st, v) == [st |-> st, ok |-> TRUE, v |-> v]

Err(st, e) == [st |-> st, ok |-> FALSE, v |-> e]

ObjectError(type) == [type |-> "ObjectError", error |-> type]

undefined_variable(name) == [type |-> "UndefinedVariable", name |-> name]

return_value(value) == [type |-> "ReturnValue", value |-> value]

\* RuntimeError::get_value_from_return
get_value_from_return(err) ==
    IF err.type = "ReturnValue" THEN err.value ELSE Null

(***************************************************************************)
(* EnvironmentNode (environment.rs).  frames is the heap of nodes; a link  *)
(* is an index into it and 0 is Option::None.                              *)
(***************************************************************************)
NoLink == 0

\* EnvironmentTree.global: the first cell of the heap, allocated by default()
GlobalLink == 1

EnvironmentNode(parent) == [values |-> EmptyMap, parent |-> parent]

Node_define(frames, link, name, value) ==
    [frames EXCEPT ![link].values = Insert(@, name, value)]

RECURSIVE Node_get(_, _, _)
Node_get(frames, link, name) ==
    IF name \in DOMAIN frames[link].values
    THEN Some(frames[link].values[name])
    ELSE IF frames[link].parent = NoLink
         THEN None
         ELSE Node_get(frames, frames[link].parent, name)

RECURSIVE Node_get_at(_, _, _, _)
Node_get_at(frames, link, name, depth) ==
    IF depth = 0
    THEN IF name \in DOMAIN frames[link].values
         THEN Some(frames[link].values[name])
         ELSE None
    ELSE IF frames[link].parent = NoLink
         THEN None
         ELSE Node_get_at(frames, frames[link].parent, name, depth - 1)

\* the result is the heap after the write and the Option the method returns
RECURSIVE Node_assign(_, _, _, _)
Node_assign(frames, link, name, value) ==
    IF name \in DOMAIN frames[link].values
    THEN [frames |-> [frames EXCEPT ![link].values[name] = value], result |-> Some(value)]
    ELSE IF frames[link].parent = NoLink
         THEN [frames |-> frames, result |-> None]
         ELSE Node_assign(frames, frames[link].parent, name, value)

RECURSIVE Node_assign_at(_, _, _, _, _)
\* the write made to a copy of the frame: the shared frame keeps the old value
Node_assign_at_copy(frames, link, name, value, depth) ==
    IF depth = 0
    THEN IF name \in DOMAIN frames[link].values
         THEN [frames |-> frames, result |-> Some(value)]
         ELSE [frames |-> frames, result |-> None]
    ELSE IF frames[link].parent = NoLink
         THEN [frames |-> frames, result |-> None]
         ELSE Node_assign_at(frames, frames[link].parent, name, value, depth - 1)

Node_assign_at(frames, link, name, value, depth) ==
    IF depth = 0
    THEN IF name \in DOMAIN frames[link].values
         THEN [frames |-> [frames EXCEPT ![link].values[name] = value],
               result |-> Some(value)]
         ELSE [frames |-> frames, result |-> None]
    ELSE IF frames[link].parent = NoLink
         THEN [frames |-> frames, result |-> None]
         ELSE Node_assign_at(frames, frames[link].parent, name, value, depth - 1)

(***************************************************************************)
(* EnvironmentTree (environment.rs): the pair (env, global).  global is    *)
(* always GlobalLink, so a tree is its env link.                           *)
(***************************************************************************)
\* EnvironmentTree::default with_prelude: the heap holding only the global frame
with_prelude == <<[values |-> Insert(EmptyMap, "clock", NativeClock), parent |-> NoLink]>>

Tree_define(frames, env, name, value) ==
    Node_define(frames, IF env # NoLink THEN env ELSE GlobalLink, name, value)

Tree_get_global(frames, name) == Node_get(frames, GlobalLink, name)

Tree_get_at(frames, env, name, depth) ==
    LET result == IF env = NoLink THEN None ELSE Node_get_at(frames, env, name, depth)
    IN  IF result.some THEN result ELSE Tree_get_global(frames, name)

Tree_assign_global(frames, name, value) == Node_assign(frames, GlobalLink, name, value)

Tree_assign_at(frames, env, name, value, depth) ==
    LET result == IF env = NoLink
                  THEN [frames |-> frames, result |-> None]
                  ELSE Node_assign_at(frames, env, name, value, depth)
    IN  IF result.result.some THEN result ELSE Tree_assign_global(frames, name, value)

\* EnvironmentTree::append: a new node whose parent is the current env
Tree_append(frames, env) ==
    [frames |-> Append(frames, EnvironmentNode(env)), env |-> Len(frames) + 1]

\* EnvironmentTree::pop: the parent of the current env (None stays None)
Tree_pop(frames, env) == IF env = NoLink THEN NoLink ELSE frames[env].parent

(***************************************************************************)
(* Expr (expr.rs) and Stmt (stmt.rs).  An expression that is a key of the  *)
(* locals map carries id, standing for the source position of its token:   *)
(* Expr's derived Hash and PartialEq compare the tokens, positions         *)
(* included, so two such expressions are the same key iff they are the     *)
(* same place of the source.                                               *)
(***************************************************************************)
Expr_Literal(object) == [t |-> "Literal", object |-> object]

Expr_Variable(name, id) == [t |-> "Variable", name |-> name, id |-> id]

Expr_Assign(name, value, id) == [t |-> "Assign", name |-> name, value |-> value, id |-> id]

Expr_Binary(left, operator, right) ==
    [t |-> "Binary", left |-> left, operator |-> operator, right |-> right]

Expr_Unary(operator, right) == [t |-> "Unary", operator |-> operator, right |-> right]

Expr_Logical(left, operator, right) ==
    [t |-> "Logical", left |-> left, operator |-> operator, right |-> right]

Expr_Grouping(expr) == [t |-> "Grouping", expr |-> expr]

Expr_Call(callee, arguments) == [t |-> "Call", callee |-> callee, arguments |-> arguments]

Expr_Get(object, name) == [t |-> "Get", object |-> object, name |-> name]

Expr_Set(object, name, value) ==
    [t |-> "Set", object |-> object, name |-> name, value |-> value]

Expr_This(id) == [t |-> "This", name |-> "this", id |-> id]

Stmt_Expression(e) == [t |-> "Expression", e |-> e]

Stmt_Print(e) == [t |-> "Print", e |-> e]

Stmt_Var(identifier, expression) ==
    [t |-> "Var", identifier |-> identifier, expression |-> expression]

Stmt_Block(statements) == [t |-> "Block", statements |-> statements]

\* else_branch is a sequence of at most one statement (Option<Box<Stmt>>)
Stmt_If(condition, then_branch, else_branch) ==
    [t |-> "If", condition |-> condition, then_branch |-> then_branch,
     else_branch |-> else_branch]

Stmt_While(condition, body) == [t |-> "While", condition |-> condition, body |-> body]

Stmt_Function(name, params, body) ==
    [t |-> "Function", name |-> name, params |-> params, body |-> body]

Stmt_Return(value) == [t |-> "Return", value |-> value]

\* superclass is a sequence of at most one Variable expression (Option<Variable>)
Stmt_Class(name, superclass, methods) ==
    [t |-> "Class", name |-> name, superclass |-> superclass, methods |-> methods]

(***************************************************************************)
(* Operators of Object (object.rs).                                        *)
(***************************************************************************)
\* PartialEq: derived on Object; by declaration on LoxFunction and LoxClass
RECURSIVE ObjectEq(_, _)
ObjectEq(a, b) ==
    IF a.k # b.k THEN FALSE
    ELSE CASE a.k = "LoxFunction" -> a.declaration = b.declaration
           [] a.k = "LoxClass" -> a.declaration = b.declaration
           [] a.k = "LoxInstance" -> a.id = b.id /\ ObjectEq(a.lox_class, b.lox_class)
           [] OTHER -> a = b

Object_sub(lhs, rhs) ==
    IF is_number(lhs) /\ is_number(rhs)
    THEN Some(Number(lhs.n - rhs.n)) ELSE [some |-> FALSE, v |-> ObjectError("SubtractError")]

Object_mul(lhs, rhs) ==
    IF is_number(lhs) /\ is_number(rhs)
    THEN Some(Number(lhs.n * rhs.n)) ELSE [some |-> FALSE, v |-> ObjectError("MultipleError")]

\* impl Div for Object: the division of two f64, which reports no error.  A
\* quotient that is an integer is that Number; any other one (a fraction, or
\* inf and NaN when rhs is 0) is the Number kept as dividend and divisor
Object_div(lhs, rhs) ==
    IF is_number(lhs) /\ is_number(rhs)
    THEN Some(IF rhs.n # 0 /\ lhs.n % rhs.n = 0
              THEN Number(lhs.n \div rhs.n)
              ELSE [k |-> "Number", dividend |-> lhs.n, divisor |-> rhs.n])
    ELSE [some |-> FALSE, v |-> ObjectError("DivisionError")]

Object_add(lhs, rhs) ==
    IF is_number(lhs) /\ is_number(rhs)
    THEN Some(Number(lhs.n + rhs.n))
    ELSE Some(String(to_string(lhs) \o to_string(rhs)))

Object_ge(lhs, rhs) ==
    IF is_number(lhs) /\ is_number(rhs)
    THEN Some(Bool(lhs.n > rhs.n)) ELSE [some |-> FALSE, v |-> ObjectError("ComparisionError")]

Object_le(lhs, rhs) ==
    IF is_number(lhs) /\ is_number(rhs)
    THEN Some(Bool(lhs.n < rhs.n)) ELSE [some |-> FALSE, v |-> ObjectError("ComparisionError")]

Object_gt(lhs, rhs) ==
    IF is_number(lhs) /\ is_number(rhs)
    THEN Some(Bool(lhs.n >= rhs.n)) ELSE [some |-> FALSE, v |-> ObjectError("ComparisionError")]

Object_lt(lhs, rhs) ==
    IF is_number(lhs) /\ is_number(rhs)
    THEN Some(Bool(lhs.n <= rhs.n)) ELSE [some |-> FALSE, v |-> ObjectError("ComparisionError")]

Object_neg(rhs) ==
    IF is_number(rhs)
    THEN Some(Number(rhs.n)) ELSE [some |-> FALSE, v |-> ObjectError("NegativeError")]

\* the match on operator.token_type() of Expr::Binary
BinaryOp(operator, lhs, rhs) ==
    CASE operator = "Minus" -> Object_sub(lhs, rhs)
      [] operator = "Star" -> Object_mul(lhs, rhs)
      [] operator = "Slash" -> Object_div(lhs, rhs)
      [] operator = "Plus" -> Object_add(lhs, rhs)
      [] operator = "Greater" -> Object_gt(lhs, rhs)
      [] operator = "GreaterEqual" -> Object_ge(lhs, rhs)
      [] operator = "Less" -> Object_lt(lhs, rhs)
      [] operator = "LessEqual" -> Object_le(lhs, rhs)
      [] operator = "BangEqual" -> Some(Bool(~ObjectEq(lhs, rhs)))
      [] operator = "EqualEqual" -> Some(Bool(ObjectEq(lhs, rhs)))

(***************************************************************************)
(* Interpreter (interpreter.rs).  The record holds the fields of the       *)
(* struct and the heap its environment links point into.  writer is an     *)
(* in-memory writer, so write never fails.  The fields after writer are    *)
(* history of what the visitor did (they influence nothing):               *)
(*   call_stack  the user-function calls in progress                       *)
(*   calls       one entry per finished LoxFunction::call                  *)
(*   blocks      one entry per finished Stmt::Block                        *)
(*   lookups     one entry per variable expression evaluated               *)
(*   functions   one entry per executed Stmt::Function                     *)
(*   prints      one entry per executed Stmt::Print                        *)
(*   created     one entry per LoxClass::call                              *)
(*   call_exprs  one entry per Expr::Call whose callee was invoked         *)
(*   gets        one entry per Expr::Get on an instance                    *)
(*   sets        one entry per Expr::Set on an instance                    *)
(*   assigns     one entry per call of EnvironmentTree::assign_at          *)
(*   binaries    one entry per operator of an Expr::Binary applied         *)
(*   evaluated   one entry per visit of an expression, added when it ends  *)
(***************************************************************************)
Interpreter_new ==
    [environment |-> NoLink, frames |-> with_prelude, errors |-> <<>>,
     locals |-> EmptyMap, lox_instances |-> EmptyMap, writer |-> <<>>,
     call_stack |-> <<>>, calls |-> <<>>, blocks |-> <<>>, lookups |-> {},
     functions |-> <<>>, prints |-> <<>>, created |-> <<>>, call_exprs |-> <<>>,
     gets |-> <<>>, sets |-> <<>>, assigns |-> <<>>, binaries |-> <<>>, depth |-> 0,
     evaluated |-> <<>>]

\* Interpreter::resolve
Interpreter_resolve(locals, expr, depth) == Insert(locals, expr.id, depth)

\* Interpreter::write on the in-memory writer
Interpreter_write(st, s) == [st EXCEPT !.writer = Append(@, s)]

\* the id of the last instance given again
instance_id_reused(st) ==
    IF st.lox_instances = EmptyMap THEN 0 ELSE Cardinality(DOMAIN st.lox_instances) - 1

\* Interpreter::instance_id
instance_id(st) == Cardinality(DOMAIN st.lox_instances)

\* LoxInstanceFields::from
LoxInstanceFields(instance) == [instance |-> instance, fields |-> EmptyMap]

\* Interpreter::add_new_instance
add_new_instance(st, lox_instance) ==
    [st EXCEPT !.lox_instances = Insert(@, lox_instance, LoxInstanceFields(lox_instance))]

\* EnvironmentTree::move_to_inner on the interpreter's environment
move_to_inner(st) ==
    LET t == Tree_append(st.frames, st.environment)
    IN  [st EXCEPT !.frames = t.frames, !.environment = t.env]

\* the pop left out: the environment stays the inner frame
move_to_outer_skipped(st) == st

\* EnvironmentTree::move_to_outer on the interpreter's environment
move_to_outer(st) == [st EXCEPT !.environment = Tree_pop(st.frames, st.environment)]

\* history: the frame a variable expression reads or writes (NoLink: none)
RECURSIVE Walk(_, _, _)
Walk(frames, link, depth) ==
    IF link = NoLink THEN NoLink
    ELSE IF depth = 0 THEN link ELSE Walk(frames, frames[link].parent, depth - 1)

Binding(st, expr) ==
    LET local == IF expr.id \in DOMAIN st.locals
                 THEN Walk(st.frames, st.environment, st.locals[expr.id])
                 ELSE NoLink
    IN  IF local # NoLink /\ expr.name \in DOMAIN st.frames[local].values THEN local
        ELSE IF expr.name \in DOMAIN st.frames[GlobalLink].values THEN GlobalLink
        ELSE NoLink

Log_lookup(st, expr) ==
    [st EXCEPT !.lookups = @ \cup
        {[id |-> expr.id, name |-> expr.name, t |-> expr.t,
          resolved |-> expr.id \in DOMAIN st.locals,
          binding |-> Binding(st, expr),
          walked |-> IF expr.id \in DOMAIN st.locals
                     THEN Walk(st.frames, st.environment, st.locals[expr.id])
                     ELSE NoLink,
          call |-> IF st.call_stack = <<>> THEN [frame |-> NoLink, closure |-> NoLink, name |-> ""]
                   ELSE st.call_stack[Len(st.call_stack)]]}]

\* history: the operator of a binary expression applied to its two operands
Log_binary(st, e, lhs, rhs, r) ==
    [st EXCEPT !.binaries = Append(@, [operator |-> e.operator, lhs |-> lhs, rhs |-> rhs,
                                       some |-> r.some, v |-> r.v])]

\* history: a call of EnvironmentTree::assign_at: its arguments, the heap before
\* and after, and whether it returned Some
Log_assign(st, e, value, result) ==
    IF e.id \in DOMAIN st.locals
    THEN [st EXCEPT !.assigns = Append(@, [name |-> e.name, value |-> value,
                                           depth |-> st.locals[e.id],
                                           env |-> st.environment,
                                           before |-> st.frames, after |-> result.frames,
                                           returned |-> result.result.some])]
    ELSE st

\* the depth ignored: the name is searched along the chain of the current frame
lookup_variable_dynamic(st, expr) ==
    LET local == IF st.environment = NoLink THEN None
                 ELSE Node_get(st.frames, st.environment, expr.name)
        result == IF local.some THEN local ELSE Tree_get_global(st.frames, expr.name)
        logged == Log_lookup(st, expr)
    IN  IF result.some THEN Ok(logged, result.v)
        ELSE Err(logged, undefined_variable(expr.name))

\* Interpreter::lookup_variable
lookup_variable(st, expr) ==
    LET result == IF expr.id \in DOMAIN st.locals
                  THEN Tree_get_at(st.frames, st.environment, expr.name, st.locals[expr.id])
                  ELSE Tree_get_global(st.frames, expr.name)
        logged == Log_lookup(st, expr)
    IN  IF result.some THEN Ok(logged, result.v)
        ELSE Err(logged, undefined_variable(expr.name))

\* Callable::arity of LoxFunction, NativeFunction (Clock) and LoxClass
arity(callee) ==
    CASE callee.k = "LoxFunction" -> Len(callee.declaration.params)
      [] callee.k = "NativeFunction" -> 0
      [] OTHER -> IF "init" \in DOMAIN callee.methods
                  THEN Len(callee.methods["init"].declaration.params)
                  ELSE 0

\* the loop of LoxFunction::call that defines the parameters: zip stops at the shorter
RECURSIVE define_params(_, _, _, _, _)
define_params(frames, env, params, arguments, i) ==
    IF i > Len(params) \/ i > Len(arguments) THEN frames
    ELSE define_params(Tree_define(frames, env, params[i], arguments[i]),
                       env, params, arguments, i + 1)

\* std::mem::swap(interpreter.environment_mut(), &mut self.closure)
swap(st, closure) == [st |-> [st EXCEPT !.environment = closure], closure |-> st.environment]

\* LoxFunction::bind: the closure extended by one frame holding this
bind(st, fun, instance) ==
    LET t == Tree_append(st.frames, fun.closure)
    IN  [st |-> [st EXCEPT !.frames = Tree_define(t.frames, t.env, "this", instance)],
         fun |-> [fun EXCEPT !.closure = t.env]]

\* LoxInstance::find_method
find_method(instance, name) ==
    IF name \in DOMAIN instance.lox_class.methods
    THEN Some(instance.lox_class.methods[name])
    ELSE IF instance.lox_class.superclass = <<>> THEN None
         ELSE IF name \in DOMAIN instance.lox_class.superclass[1].methods
              THEN Some(instance.lox_class.superclass[1].methods[name])
              ELSE None

\* LoxInstanceFields::get: the result and the state (bind allocates a frame)
LoxInstanceFields_get(st, instance_fields, name) ==
    IF name \in DOMAIN instance_fields.fields
    THEN [st |-> st, result |-> Some(instance_fields.fields[name])]
    ELSE LET method == find_method(instance_fields.instance, name)
         IN  IF method.some
             THEN LET b == bind(st, method.v, instance_fields.instance)
                  IN  [st |-> b.st, result |-> Some(b.fun)]
             ELSE [st |-> st, result |-> None]

\* the value inserted in the table of every instance
LoxInstanceFields_set_every(st, instance, name, value) ==
    [st EXCEPT !.lox_instances = [i \in DOMAIN @ |->
                                     [@[i] EXCEPT !.fields = Insert(@, name, value)]]]

\* LoxInstanceFields::set through lox_instances.get_mut
LoxInstanceFields_set(st, instance, name, value) ==
    [st EXCEPT !.lox_instances[instance].fields = Insert(@, name, value)]

(***************************************************************************)
(* The visitor of the interpreter: visit_expr, visit_stmt and the call     *)
(* methods of the callables, which call each other.                        *)
(***************************************************************************)
RECURSIVE Interpreter_visit_expr(_, _)
RECURSIVE visit_expr_match(_, _)
RECURSIVE visit_logical(_, _)
RECURSIVE Interpreter_visit_stmt(_, _)
RECURSIVE collect_arguments(_, _, _, _)
RECURSIVE find_from(_, _, _)
RECURSIVE while_loop(_, _)
RECURSIVE LoxFunction_call(_, _, _)
RECURSIVE LoxClass_call(_, _, _)
RECURSIVE Callable_call(_, _, _)

\* history: the exit path of a body
ExitPath(r) == IF r.ok THEN "ok" ELSE IF r.v.type = "ReturnValue" THEN "return" ELSE "error"

CallContext(st) ==
    IF st.call_stack = <<>> THEN [frame |-> NoLink, closure |-> NoLink, name |-> ""]
    ELSE st.call_stack[Len(st.call_stack)]

\* the second swap left out: the environment stays the frame of the call
swap_back_skipped(st, closure) == [st |-> st, closure |-> closure]

\* the second std::mem::swap of LoxFunction::call, which restores the environment
swap_back(st, closure) == swap(st, closure)

\* the value an initializer's call yields: the instance its closure binds to this
initializer_result(st, fun, result) ==
    IF fun.is_initializer
    THEN Node_get_at(st.frames, fun.closure, "this", 0).v
    ELSE result

\* history: the finished call.  before is the environment of the caller, frame
\* the frame of the call, left the state after the second swap
call_entry(st, fun, frame, body, left, returned) ==
    [name |-> fun.declaration.name, before |-> st.environment,
     frame |-> frame, fresh |-> frame > Len(st.frames),
     parent |-> left.frames[frame].parent, closure |-> fun.closure,
     after |-> left.environment, exit |-> ExitPath(body),
     raised |-> IF body.ok THEN Null ELSE body.v,
     result |-> [ok |-> returned.ok, v |-> returned.v],
     depth |-> Len(st.call_stack) + 1]

\* Ok(result), with the call taken off the history's stack and logged
call_return(st, fun, frame, body, left, returned) ==
    [returned EXCEPT !.st.call_stack = SubSeq(@, 1, Len(@) - 1),
                     !.st.calls = Append(@, call_entry(st, fun, frame, body, left, returned))]

\* the second swap and self.closure.move_to_outer(), which only moves the
\* callee's own copy of the closure
call_leave(st, fun, frame, body, left) ==
    call_return(st, fun, frame, body, left.st,
                Ok(left.st, initializer_result(left.st, fun,
                                               IF body.ok THEN Null
                                               ELSE get_value_from_return(body.v))))

\* interpreter.stmt(&self.declaration.body), then the second swap
call_body(st, fun, entered, body) ==
    call_leave(st, fun, entered.st.environment, body, swap_back(body.st, entered.closure))

\* the first swap, then the body
call_enter(st, fun, entered) ==
    call_body(st, fun, entered, Interpreter_visit_stmt(entered.st, fun.declaration.body))

\* the parameters defined in the frame appended to the closure, then the first swap
call_define(st, fun, arguments, inner) ==
    call_enter(st, fun,
               swap([st EXCEPT !.frames = define_params(inner.frames, inner.env,
                                                        fun.declaration.params, arguments, 1),
                               !.call_stack = Append(@, [frame |-> inner.env,
                                                         closure |-> fun.closure,
                                                         name |-> fun.declaration.name])],
                    inner.env))

\* LoxFunction::call
LoxFunction_call(st, fun, arguments) ==
    call_define(st, fun, arguments, Tree_append(st.frames, fun.closure))

\* LoxClass::new_instance
new_instance(class, id) == LoxInstance(id, class)

\* history: the class invocation.  added is the state after add_new_instance,
\* before init runs, and r what the invocation returns
created_entry(st, class, lox_instance, added, r) ==
    [instance |-> lox_instance, class |-> class,
     ids |-> {i.id : i \in DOMAIN st.lox_instances},
     registered |-> lox_instance \in DOMAIN added.lox_instances,
     fields |-> IF lox_instance \in DOMAIN added.lox_instances
                THEN added.lox_instances[lox_instance].fields
                ELSE Null,
     has_init |-> "init" \in DOMAIN class.methods,
     started |-> Len(st.calls),
     result |-> [ok |-> r.ok, v |-> r.v]]

class_return(st, class, lox_instance, added, r) ==
    [r EXCEPT !.st.created = Append(@, created_entry(st, class, lox_instance, added, r))]

\* init.bind(lox_instance).call(interpreter, arguments)
class_bound(bound, arguments) == LoxFunction_call(bound.st, bound.fun, arguments)

\* if let Some(init) = self.methods.get("init") { return init.bind(..).call(..) }; Ok(instance)
class_init(st, class, arguments, lox_instance, added) ==
    class_return(st, class, lox_instance, added,
                 IF "init" \in DOMAIN class.methods
                 THEN class_bound(bind(added, class.methods["init"], lox_instance), arguments)
                 ELSE Ok(added, lox_instance))

\* interpreter.add_new_instance(lox_instance.clone())
class_add(st, class, arguments, lox_instance) ==
    class_init(st, class, arguments, lox_instance, add_new_instance(st, lox_instance))

\* LoxClass::call
LoxClass_call(st, class, arguments) ==
    class_add(st, class, arguments, new_instance(class, instance_id(st)))

\* Callable for LoxCallable: call (the native function is clock, read as 0)
Callable_call(st, callee, arguments) ==
    CASE callee.k = "LoxFunction" -> LoxFunction_call(st, callee, arguments)
      [] callee.k = "NativeFunction" -> Ok(st, Number(0))
      [] OTHER -> LoxClass_call(st, callee, arguments)

\* history: what an Expr::Get on an instance found
Log_get(st, instance, name, result) ==
    [st EXCEPT !.gets = Append(@, [instance |-> instance, name |-> name,
                                   sets |-> Len(st.sets),
                                   in_fields |-> name \in DOMAIN st.lox_instances[instance].fields,
                                   found |-> result.some,
                                   v |-> IF result.some THEN result.v ELSE Null])]

\* history: an Expr::Set on an instance: the field tables before and after
Log_set(st, instance, name, value, after) ==
    [after EXCEPT !.sets = Append(@, [instance |-> instance, name |-> name, value |-> value,
                                      before |-> st.lox_instances,
                                      after |-> after.lox_instances])]

\* history: the environment before an Expr::Call and after its callee returned
Log_call(st, callee, r) ==
    [r EXCEPT !.st.call_exprs = Append(@, [callee |-> callee.k, before |-> st.environment,
                                           after |-> r.st.environment, ok |-> r.ok,
                                           v |-> r.v])]

\* the arguments visited from the last to the first
collect_arguments_reversed(st, arguments, i, acc) ==
    IF i > Len(arguments) THEN Ok(st, acc)
    ELSE LET r == Interpreter_visit_expr(st, arguments[Len(arguments) + 1 - i])
         IN  IF ~r.ok THEN r
             ELSE collect_arguments(r.st, arguments, i + 1, <<r.v>> \o acc)

\* call.arguments.iter().map(visit_expr).collect::<Result<Vec<_>, _>>()
collect_arguments(st, arguments, i, acc) ==
    IF i > Len(arguments) THEN Ok(st, acc)
    ELSE LET r == Interpreter_visit_expr(st, arguments[i])
         IN  IF ~r.ok THEN r ELSE collect_arguments(r.st, arguments, i + 1, Append(acc, r.v))

\* the left operand returned as the Bool of its truth
visit_logical_coerced(e, left) ==
    IF ~left.ok THEN left
    ELSE IF e.operator = "Or"
         THEN IF is_truthy(left.v) THEN Ok(left.st, Bool(TRUE))
              ELSE Interpreter_visit_expr(left.st, e.right)
         ELSE IF ~is_truthy(left.v) THEN Ok(left.st, Bool(FALSE))
              ELSE Interpreter_visit_expr(left.st, e.right)

\* Expr::Logical after let left = self.visit_expr(&logical.left)
visit_logical(e, left) ==
    IF ~left.ok THEN left
    ELSE IF e.operator = "Or"
         THEN IF is_truthy(left.v) THEN left
              ELSE Interpreter_visit_expr(left.st, e.right)
         ELSE IF ~is_truthy(left.v) THEN left
              ELSE Interpreter_visit_expr(left.st, e.right)

\* Visitor::visit_expr for Interpreter: match e { ... }
visit_expr_match(st, e) ==
    CASE e.t = "Binary" ->
            LET lhs == Interpreter_visit_expr(st, e.left)
            IN  IF ~lhs.ok THEN lhs
                ELSE LET rhs == Interpreter_visit_expr(lhs.st, e.right)
                     IN  IF ~rhs.ok THEN rhs
                         ELSE LET r == BinaryOp(e.operator, lhs.v, rhs.v)
                              IN  IF r.some
                                  THEN Ok(Log_binary(rhs.st, e, lhs.v, rhs.v, r), r.v)
                                  ELSE Err(Log_binary(rhs.st, e, lhs.v, rhs.v, r), r.v)
      [] e.t = "Unary" ->
            LET rhs == Interpreter_visit_expr(st, e.right)
            IN  IF ~rhs.ok THEN rhs
                ELSE IF e.operator = "Minus"
                     THEN LET r == Object_neg(rhs.v)
                          IN  IF r.some THEN Ok(rhs.st, r.v) ELSE Err(rhs.st, r.v)
                     ELSE Ok(rhs.st, Bool(~is_truthy(rhs.v)))
      [] e.t = "Literal" -> Ok(st, e.object)
      [] e.t = "Grouping" -> Interpreter_visit_expr(st, e.expr)
      [] e.t = "Variable" -> lookup_variable(st, e)
      [] e.t = "Assign" ->
            LET value == Interpreter_visit_expr(st, e.value)
            IN  IF ~value.ok THEN value
                ELSE LET result ==
                             IF e.id \in DOMAIN value.st.locals
                             THEN Tree_assign_at(value.st.frames, value.st.environment,
                                                 e.name, value.v, value.st.locals[e.id])
                             ELSE Tree_assign_global(value.st.frames, e.name, value.v)
                         after == [Log_assign(Log_lookup(value.st, e), e, value.v, result)
                                      EXCEPT !.frames = result.frames]
                     IN  IF result.result.some THEN Ok(after, result.result.v)
                         ELSE Err(after, undefined_variable(e.name))
      [] e.t = "Logical" -> visit_logical(e, Interpreter_visit_expr(st, e.left))
      [] e.t = "Call" ->
            LET callee == Interpreter_visit_expr(st, e.callee)
            IN  IF ~callee.ok THEN callee
                ELSE IF IsCallable(callee.v)
                     THEN LET arguments == collect_arguments(callee.st, e.arguments, 1, <<>>)
                          IN  IF ~arguments.ok THEN arguments
                              ELSE IF Len(arguments.v) # arity(callee.v)
                                   THEN Err(arguments.st,
                                            [type |-> "NumberArgumentsMismatch",
                                             params |-> arity(callee.v),
                                             args |-> Len(arguments.v)])
                                   ELSE Log_call(st, callee.v,
                                            Callable_call(arguments.st, callee.v, arguments.v))
                     ELSE Err(callee.st, [type |-> "ObjectNotCallable",
                                          name |-> to_string(callee.v)])
      [] e.t = "Get" ->
            LET object == Interpreter_visit_expr(st, e.object)
            IN  IF ~object.ok THEN object
                ELSE IF object.v.k = "LoxInstance"
                     THEN LET got == LoxInstanceFields_get(object.st,
                                         object.st.lox_instances[object.v], e.name)
                              logged == Log_get(got.st, object.v, e.name, got.result)
                          IN  IF got.result.some THEN Ok(logged, got.result.v)
                              ELSE Err(logged, [type |-> "UndefinedProperty", name |-> e.name])
                     ELSE Err(object.st, [type |-> "OnlyClassInstanceHasField",
                                          object |-> to_string(object.v), field |-> e.name])
      [] e.t = "Set" ->
            LET object == Interpreter_visit_expr(st, e.object)
            IN  IF ~object.ok THEN object
                ELSE IF object.v.k = "LoxInstance"
                     THEN LET value == Interpreter_visit_expr(object.st, e.value)
                          IN  IF ~value.ok THEN value
                              ELSE Ok(Log_set(value.st, object.v, e.name, value.v,
                                              LoxInstanceFields_set(value.st, object.v,
                                                                    e.name, value.v)),
                                      value.v)
                     ELSE Err(object.st, [type |-> "OnlyClassInstanceHasField",
                                          object |-> to_string(object.v), field |-> e.name])
      [] e.t = "This" -> lookup_variable(st, e)

\* history: the visit of the expression e, entered in st, ended with r.  depth
\* is the nesting of the visit among the visits in progress, level the number
\* of calls in progress, first the length of the history when the visit began:
\* the visits of the operands of e are the entries after first of depth + 1
\* and of the same level.  work counts the calls and class invocations ended.
Log_evaluated(st, e, r) ==
    [r EXCEPT !.st.depth = st.depth,
              !.st.evaluated = Append(@, [e |-> e, depth |-> st.depth + 1,
                                          level |-> Len(st.call_stack),
                                          first |-> Len(st.evaluated),
                                          ok |-> r.ok, v |-> r.v,
                                          work |-> Len(r.st.calls) + Len(r.st.created)
                                                   - Len(st.calls) - Len(st.created)])]

\* Interpreter::visit_expr
Interpreter_visit_expr(st, e) ==
    Log_evaluated(st, e, visit_expr_match([st EXCEPT !.depth = @ + 1], e))

\* block.statements.iter().map(visit_stmt).find(is_err): the iterator is lazy, so
\* the statements after the first Err are not visited.  ran is the number of
\* statements visited and hit the index of the one whose Err is returned.
find_from(st, statements, i) ==
    IF i > Len(statements)
    THEN [st |-> st, ok |-> TRUE, v |-> Null, ran |-> i - 1, hit |-> 0]
    ELSE LET r == Interpreter_visit_stmt(st, statements[i])
         IN  IF ~r.ok THEN [st |-> r.st, ok |-> FALSE, v |-> r.v, ran |-> i, hit |-> i]
             ELSE find_from(r.st, statements, i + 1)

find_is_err(st, statements) == find_from(st, statements, 1)

\* the loop of Stmt::While: the body visited, then the loop again
while_next(w, body) == IF ~body.ok THEN body ELSE while_loop(body.st, w)

\* the condition tested
while_test(w, condition) ==
    IF ~condition.ok THEN condition
    ELSE IF ~is_truthy(condition.v) THEN Ok(condition.st, Null)
         ELSE while_next(w, Interpreter_visit_stmt(condition.st, w.body))

while_loop(st, w) == while_test(w, Interpreter_visit_expr(st, w.condition))

\* the loop of Stmt::Class that builds the method table; a later method of the
\* same name replaces an earlier one
RECURSIVE build_methods(_, _, _, _)
\* the initializer flag never set
build_methods_plain(methods, environment, i, acc) ==
    IF i > Len(methods) THEN acc
    ELSE build_methods(methods, environment, i + 1,
                       Insert(acc, methods[i].name,
                              LoxFunction(methods[i], environment, FALSE)))

build_methods(methods, environment, i, acc) ==
    IF i > Len(methods) THEN acc
    ELSE build_methods(methods, environment, i + 1,
                       Insert(acc, methods[i].name,
                              LoxFunction(methods[i], environment, methods[i].name = "init")))

\* Stmt::Expression: self.visit_expr(e)?;
stmt_expression(r) == IF ~r.ok THEN r ELSE Ok(r.st, Null)

\* Stmt::Print: the value written (and logged in the history)
stmt_print(s, value) ==
    IF ~value.ok THEN value
    ELSE Ok([Interpreter_write(value.st, to_string(value.v))
                EXCEPT !.prints = Append(@, [text |-> to_string(value.v),
                                             e |-> s.e,
                                             call |-> CallContext(value.st)])],
            Null)

\* Stmt::Var: the value defined in the current frame
stmt_var(s, value) ==
    IF ~value.ok THEN value
    ELSE Ok([value.st EXCEPT !.frames = Tree_define(@, value.st.environment,
                                                    s.identifier, value.v)],
            Null)

\* history: the finished block.  inner is the state after move_to_inner, error
\* what the search returned, outer the state after move_to_outer
block_entry(st, s, inner, error, outer) ==
    [before |-> st.environment, inner |-> inner.environment,
     fresh |-> inner.environment > Len(st.frames),
     parent |-> inner.frames[inner.environment].parent,
     pushed |-> Len(inner.frames) - Len(st.frames),
     after |-> outer.environment, exit |-> ExitPath(error),
     len |-> Len(s.statements), ran |-> error.ran, hit |-> error.hit]

\* if let Some(error) = error { return error; }
block_return(st, s, inner, error, outer) ==
    IF ~error.ok
    THEN Err([outer EXCEPT !.blocks = Append(@, block_entry(st, s, inner, error, outer))],
             error.v)
    ELSE Ok([outer EXCEPT !.blocks = Append(@, block_entry(st, s, inner, error, outer))],
            Null)

\* self.environment.move_to_outer()
block_leave(st, s, inner, error) ==
    block_return(st, s, inner, error, move_to_outer(error.st))

\* Stmt::Block after move_to_inner: the search for the first Err
stmt_block(st, s, inner) == block_leave(st, s, inner, find_is_err(inner, s.statements))

\* Stmt::If: the branch the condition selects
stmt_if(s, condition) ==
    IF ~condition.ok THEN condition
    ELSE IF is_truthy(condition.v)
         THEN Interpreter_visit_stmt(condition.st, s.then_branch)
         ELSE IF s.else_branch # <<>>
              THEN Interpreter_visit_stmt(condition.st, s.else_branch[1])
              ELSE Ok(condition.st, Null)

\* Stmt::Return: the value as the ReturnValue error
stmt_return(value) ==
    IF ~value.ok THEN value ELSE Err(value.st, return_value(value.v))

\* Stmt::Class: the superclass checked, the methods built, the class defined
stmt_class(s, superclass) ==
    IF ~superclass.ok THEN superclass
    ELSE IF s.superclass # <<>> /\ superclass.v.k # "LoxClass"
         THEN Err(superclass.st, [type |-> "SuperclassMustBeClass",
                                  name |-> s.superclass[1].name])
         ELSE Ok([superclass.st EXCEPT
                     !.frames = Tree_define(@, superclass.st.environment, s.name,
                                    LoxClass(s,
                                             IF s.superclass # <<>>
                                             THEN <<superclass.v>> ELSE <<>>,
                                             build_methods(s.methods,
                                                           superclass.st.environment,
                                                           1, EmptyMap)))],
                 Null)

\* Visitor::visit_stmt for Interpreter
Interpreter_visit_stmt(st, s) ==
    CASE s.t = "Expression" -> stmt_expression(Interpreter_visit_expr(st, s.e))
      [] s.t = "Print" -> stmt_print(s, Interpreter_visit_expr(st, s.e))
      [] s.t = "Var" -> stmt_var(s, Interpreter_visit_expr(st, s.expression))
      [] s.t = "Block" -> stmt_block(st, s, move_to_inner(st))
      [] s.t = "If" -> stmt_if(s, Interpreter_visit_expr(st, s.condition))
      [] s.t = "While" -> while_loop(st, s)
      [] s.t = "Function" ->
            Ok([st EXCEPT !.frames = Tree_define(@, st.environment, s.name,
                                                 LoxFunction(s, st.environment, FALSE)),
                          !.functions = Append(@, [name |-> s.name,
                                                   environment |-> st.environment])],
               Null)
      [] s.t = "Return" -> stmt_return(Interpreter_visit_expr(st, s.value))
      [] s.t = "Class" ->
            stmt_class(s, IF s.superclass # <<>>
                          THEN Interpreter_visit_expr(st, s.superclass[1])
                          ELSE Ok(st, Null))

(***************************************************************************)
(* Resolver (resolver.rs).  locals is the locals map of the interpreter    *)
(* the resolver borrows.  refs is history: for every variable, assignment  *)
(* or this expression visited, and for every superclass name of a class    *)
(* statement visited, whether a scope of the stack declares the name.      *)
(***************************************************************************)
Resolver_new(locals) ==
    [scopes |-> <<>>, errors |-> <<>>, locals |-> locals,
     function_type |-> "Null", class_level |-> 0, refs |-> {}, returns |-> <<>>]

\* FunctionType::next_level
next_level(function_type, fun_name) ==
    CASE function_type = "Null" -> "Function"
      [] function_type = "Function" -> "Function"
      [] function_type = "Method" -> (IF fun_name = "init" THEN "Initializer" ELSE "Method")
      [] function_type = "Initializer" -> "Function"

begin_scope(rs) == [rs EXCEPT !.scopes = Append(@, EmptyMap)]

end_scope(rs) ==
    [rs EXCEPT !.scopes = IF @ = <<>> THEN <<>> ELSE SubSeq(@, 1, Len(@) - 1)]

\* Resolver::declare
declare(rs, ident) ==
    IF rs.scopes # <<>>
    THEN IF ident \in DOMAIN rs.scopes[Len(rs.scopes)]
         THEN Err(rs, [type |-> "VarAlreadyExistInScope", name |-> ident])
         ELSE Ok([rs EXCEPT !.scopes[Len(rs.scopes)] = Insert(@, ident, FALSE)], Null)
    ELSE Ok(rs, Null)

\* Resolver::define
define(rs, ident) ==
    IF rs.scopes # <<>> /\ ident \in DOMAIN rs.scopes[Len(rs.scopes)]
    THEN [rs EXCEPT !.scopes[Len(rs.scopes)][ident] = TRUE]
    ELSE rs

\* the scopes, innermost first, that hold the name
ScopesWith(rs, name) == {d \in 0..(Len(rs.scopes) - 1) : name \in DOMAIN rs.scopes[Len(rs.scopes) - d]}

Min(S) == CHOOSE x \in S : \A y \in S : x <= y

Log_ref(rs, expr) ==
    [rs EXCEPT !.refs = @ \cup {[id |-> expr.id, name |-> expr.name,
                                 enclosing |-> ScopesWith(rs, expr.name) # {},
                                 scopes |-> Len(rs.scopes)]}]

\* Resolver::resolve_local
resolve_local(rs, expr) ==
    IF ScopesWith(rs, expr.name) # {}
    THEN [rs EXCEPT !.locals = Interpreter_resolve(@, expr, Min(ScopesWith(rs, expr.name)))]
    ELSE rs

RECURSIVE Resolver_visit_expr(_, _)
RECURSIVE Resolver_visit_stmt(_, _)
RECURSIVE resolve_arguments(_, _, _, _)
RECURSIVE resolve_find_from(_, _, _)
RECURSIVE declare_params(_, _, _, _)
RECURSIVE resolve_methods(_, _, _)

\* for arg in &call.arguments { self.visit_expr(arg)?; }
resolve_arguments(r, arguments, lo, hi) ==
    IF ~r.ok \/ lo > hi THEN r
    ELSE IF lo = hi THEN Resolver_visit_expr(r.st, arguments[lo])
    ELSE resolve_arguments(resolve_arguments(r, arguments, lo, (lo + hi) \div 2),
                           arguments, (lo + hi) \div 2 + 1, hi)

\* Visitor::visit_expr for Resolver
Resolver_visit_expr(rs, e) ==
    CASE e.t = "Binary" ->
            LET l == Resolver_visit_expr(rs, e.left)
            IN  IF ~l.ok THEN l ELSE Resolver_visit_expr(l.st, e.right)
      [] e.t = "Unary" -> Resolver_visit_expr(rs, e.right)
      [] e.t = "Literal" -> Ok(rs, Null)
      [] e.t = "Grouping" -> Resolver_visit_expr(rs, e.expr)
      [] e.t = "Variable" ->
            IF /\ rs.scopes # <<>>
               /\ e.name \in DOMAIN rs.scopes[Len(rs.scopes)]
               /\ rs.scopes[Len(rs.scopes)][e.name] = FALSE
            THEN Err(rs, [type |-> "ReadDuringInitializer", name |-> e.name])
            ELSE Ok(resolve_local(Log_ref(rs, e), e), Null)
      [] e.t = "Assign" ->
            LET value == Resolver_visit_expr(rs, e.value)
            IN  IF ~value.ok THEN value
                ELSE Ok(resolve_local(Log_ref(value.st, e), e), Null)
      [] e.t = "Logical" ->
            LET l == Resolver_visit_expr(rs, e.left)
            IN  IF ~l.ok THEN l ELSE Resolver_visit_expr(l.st, e.right)
      [] e.t = "Call" ->
            LET callee == Resolver_visit_expr(rs, e.callee)
            IN  IF ~callee.ok THEN callee
                ELSE resolve_arguments(callee, e.arguments, 1, Len(e.arguments))
      [] e.t = "Get" -> Resolver_visit_expr(rs, e.object)
      [] e.t = "Set" ->
            LET value == Resolver_visit_expr(rs, e.value)
            IN  IF ~value.ok THEN value ELSE Resolver_visit_expr(value.st, e.object)
      [] e.t = "This" ->
            IF rs.class_level = 0
            THEN Err(rs, [type |-> "CallThisOutsideClass"])
            ELSE Ok(resolve_local(Log_ref(rs, e), e), Null)

\* block.statements.iter().map(visit_stmt).find(is_err)
resolve_find_from(rs, statements, i) ==
    IF i > Len(statements) THEN Ok(rs, Null)
    ELSE LET r == Resolver_visit_stmt(rs, statements[i])
         IN  IF ~r.ok THEN r ELSE resolve_find_from(r.st, statements, i + 1)

\* for param in &fun.params { self.declare(param)?; self.define(param); }
declare_params(r, params, lo, hi) ==
    IF ~r.ok \/ lo > hi THEN r
    ELSE IF lo = hi
         THEN LET d == declare(r.st, params[lo])
              IN  IF ~d.ok THEN d ELSE Ok(define(d.st, params[lo]), Null)
    ELSE declare_params(declare_params(r, params, lo, (lo + hi) \div 2),
                        params, (lo + hi) \div 2 + 1, hi)

\* for method in &class.methods { self.function_type = Method; self.visit_stmt(method)?; }
resolve_methods(rs, methods, i) ==
    IF i > Len(methods) THEN Ok(rs, Null)
    ELSE LET r == Resolver_visit_stmt([rs EXCEPT !.function_type = "Method"], methods[i])
         IN  IF ~r.ok THEN r ELSE resolve_methods(r.st, methods, i + 1)

\* history: the return statement s visited with the outcome r
Log_return(s, r) ==
    [r EXCEPT !.st.returns = Append(@, [value |-> s.value,
                                        reported |-> ~r.ok /\ r.v = [type |-> "ReturnInsideInit"]])]

\* Visitor::visit_stmt for Resolver
Resolver_visit_stmt(rs, s) ==
    CASE s.t = "Expression" -> Resolver_visit_expr(rs, s.e)
      [] s.t = "Print" -> Resolver_visit_expr(rs, s.e)
      [] s.t = "Return" ->
            Log_return(s,
                IF rs.function_type = "Null"
                THEN Err(rs, [type |-> "ReturnFromTopLevel"])
                ELSE IF rs.function_type = "Initializer" /\ s.value # Expr_Literal(Null)
                     THEN Err(rs, [type |-> "ReturnInsideInit"])
                     ELSE Resolver_visit_expr(rs, s.value))
      [] s.t = "Function" ->
            LET declared == declare(rs, s.name)
            IN  IF ~declared.ok THEN declared
                ELSE LET scoped == begin_scope(define(declared.st, s.name))
                         old_function_type == scoped.function_type
                         levelled == [scoped EXCEPT
                                        !.function_type = next_level(@, s.name)]
                         params == declare_params(Ok(levelled, Null), s.params, 1, Len(s.params))
                     IN  IF ~params.ok THEN params
                         ELSE LET result == Resolver_visit_stmt(params.st, s.body)
                                  ended == end_scope([result.st EXCEPT
                                              !.function_type = old_function_type])
                              IN  [result EXCEPT !.st = ended]
      [] s.t = "Var" ->
            LET declared == declare(rs, s.identifier)
            IN  IF ~declared.ok THEN declared
                ELSE LET value == Resolver_visit_expr(declared.st, s.expression)
                     IN  IF ~value.ok THEN value
                         ELSE Ok(define(value.st, s.identifier), Null)
      [] s.t = "Block" ->
            LET error == resolve_find_from(begin_scope(rs), s.statements, 1)
            IN  [error EXCEPT !.st = end_scope(error.st)]
      [] s.t = "If" ->
            LET condition == Resolver_visit_expr(rs, s.condition)
            IN  IF ~condition.ok THEN condition
                ELSE LET then_branch == Resolver_visit_stmt(condition.st, s.then_branch)
                     IN  IF ~then_branch.ok THEN then_branch
                         ELSE IF s.else_branch # <<>>
                              THEN Resolver_visit_stmt(then_branch.st, s.else_branch[1])
                              ELSE then_branch
      [] s.t = "While" ->
            LET condition == Resolver_visit_expr(rs, s.condition)
            IN  IF ~condition.ok THEN condition
                ELSE Resolver_visit_stmt(condition.st, s.body)
      [] s.t = "Class" ->
            LET declared == declare(rs, s.name)
            IN  IF ~declared.ok THEN declared
                ELSE LET defined == define(declared.st, s.name)
                         seen == IF s.superclass # <<>>
                                 THEN Log_ref(defined, s.superclass[1]) ELSE defined
                         levelled == [seen EXCEPT !.class_level = @ + 1]
                         scoped == [begin_scope(levelled) EXCEPT
                                      !.scopes[Len(levelled.scopes) + 1] =
                                          Insert(@, "this", FALSE)]
                         old_function_type == scoped.function_type
                         methods == resolve_methods(scoped, s.methods, 1)
                     IN  IF ~methods.ok THEN methods
                         ELSE Ok([end_scope([methods.st EXCEPT
                                               !.function_type = old_function_type])
                                     EXCEPT !.class_level = @ - 1],
                                 Null)

(***************************************************************************)
(* Parser (parser.rs).  A token is its type, its lexeme and, for a number, *)
(* its value; the position of a token is its index in the token list, and  *)
(* the list always ends with Eof.  The record of the parser holds the      *)
(* list, the position of the iterator, the errors, the statements parse()  *)
(* has collected, and steps, history of the iterations of parse():         *)
(*   start      the position before declaration()                          *)
(*   failed_at  the position when declaration() returned                   *)
(*   resumed    the position after synchronize(), if it ran                *)
(***************************************************************************)
MAXIMUM_ARGUMENTS == 255

Token(token_type, lexeme, number) == [type |-> token_type, lexeme |-> lexeme, number |-> number]

Parser_new(tokens) ==
    [tokens |-> tokens, pos |-> 1, errors |-> <<>>, statements |-> <<>>, steps |-> <<>>]

\* Parser::is_end: only Eof is left in the iterator
is_end(p) == Len(p.tokens) - p.pos + 1 = 1

\* Parser::peek_type
peek_type(p) == p.tokens[p.pos].type

\* Parser::next: the iterator does not move past Eof
Parser_next(p) == IF is_end(p) THEN p ELSE [p EXCEPT !.pos = @ + 1]

\* ParseError::expected_expression, unexpected_token, invalid_assignment and
\* maximum_arguments: the error at the token of position at
ParseError(error_type, expected, p, at) ==
    [type |-> error_type, expected |-> expected, found |-> p.tokens[at].type, at |-> at,
     panic_mode |-> TRUE]

\* the flag kept
without_panic_kept(error) == error

\* ParseError::without_panic
without_panic(error) == [error EXCEPT !.panic_mode = FALSE]

\* Parser::consume
consume(p, token_type) ==
    IF peek_type(p) = token_type
    THEN Ok(Parser_next(p), p.tokens[p.pos])
    ELSE Err(p, ParseError("UnexpectedToken", token_type, p, p.pos))

\* r?; self.consume(token_type)?; with the value of r kept
and_then_consume(r, token_type) ==
    IF ~r.ok THEN r
    ELSE IF consume(r.st, token_type).ok
         THEN Ok(consume(r.st, token_type).st, r.v)
         ELSE consume(r.st, token_type)

\* Parser::consume_identifier
consume_identifier(p, ident_info) ==
    IF peek_type(p) = "Identifier"
    THEN Ok(Parser_next(p), p.tokens[p.pos].lexeme)
    ELSE Err(p, ParseError("UnexpectedToken", ident_info, p, p.pos))

\* let mut params = Vec::new() before a list loop, and the result the loop leaves
list_loop(p) == [st |-> p, ok |-> TRUE, v |-> <<>>, done |-> FALSE]

list_result(l) == [st |-> l.st, ok |-> l.ok, v |-> l.v]

RECURSIVE Parser_stmt(_, _, _)
RECURSIVE Parser_expr(_, _, _)

\* the clauses of a for statement already read: the initializer and the
\* increment are Option<ParseResult>, unwrapped only after the body
for_desugar(initializer, condition, increment, body) ==
    IF ~body.ok THEN body
    ELSE IF increment.some /\ ~increment.r.ok THEN Err(body.st, increment.r.v)
    ELSE IF initializer.some /\ ~initializer.r.ok THEN Err(body.st, initializer.r.v)
    ELSE Ok(body.st,
            IF initializer.some
            THEN Stmt_Block(<<initializer.r.v,
                              Stmt_While(condition.v,
                                         IF increment.some
                                         THEN Stmt_Block(<<body.v,
                                                           Stmt_Expression(increment.r.v)>>)
                                         ELSE body.v)>>)
            ELSE Stmt_While(condition.v,
                            IF increment.some
                            THEN Stmt_Block(<<body.v, Stmt_Expression(increment.r.v)>>)
                            ELSE body.v))

\* The functions of the parser that return a statement; rule names the
\* function, p is its parser (for a loop: the loop's state) and x its argument.
Parser_stmt(rule, p, x) ==
    CASE rule = "declaration" ->
            CASE peek_type(p) = "Fun" -> Parser_stmt("fun_declaration", Parser_next(p), Null)
              [] peek_type(p) = "Var" -> Parser_stmt("var_declaration", Parser_next(p), Null)
              [] OTHER -> Parser_stmt("statement", p, Null)
      \* the loop of fun_declaration over the parameters: p is the loop's state
      \* (the parser, the parameters pushed so far, whether the loop was left by
      \* break or by return Err), x bounds the iterations, run in two halves
      [] rule = "fun_params" ->
            IF p.done THEN p
            ELSE IF x > 1
                 THEN Parser_stmt("fun_params", Parser_stmt("fun_params", p, x \div 2),
                                  x - x \div 2)
            ELSE LET param == consume_identifier(p.st, "parameter name")
                 IN  IF ~param.ok
                     THEN [st |-> param.st, ok |-> FALSE, v |-> param.v, done |-> TRUE]
                     ELSE IF Len(p.v) + 1 >= MAXIMUM_ARGUMENTS
                          THEN [st |-> param.st, ok |-> FALSE, done |-> TRUE,
                                v |-> ParseError("MaximumArguments", "", param.st,
                                                 param.st.pos)]
                          ELSE IF consume(param.st, "Comma").ok
                               THEN [st |-> Parser_next(param.st), ok |-> TRUE,
                                     v |-> Append(p.v, param.v), done |-> FALSE]
                               ELSE [st |-> param.st, ok |-> TRUE,
                                     v |-> Append(p.v, param.v), done |-> TRUE]
      [] rule = "fun_declaration" ->
            LET name == and_then_consume(consume_identifier(p, "function name"), "LeftParen")
            IN  IF ~name.ok THEN name
                ELSE LET params ==
                             and_then_consume(
                                 and_then_consume(
                                     IF peek_type(name.st) # "RightParen"
                                     THEN list_result(Parser_stmt("fun_params",
                                                                  list_loop(name.st),
                                                                  Len(name.st.tokens)))
                                     ELSE Ok(name.st, <<>>),
                                     "RightParen"),
                                 "LeftBrace")
                     IN  IF ~params.ok THEN params
                         ELSE LET body == Parser_stmt("block", params.st, Null)
                              IN  IF ~body.ok THEN body
                                  ELSE Ok(body.st, Stmt_Function(name.v, params.v, body.v))
      [] rule = "var_declaration" ->
            IF peek_type(p) = "Identifier"
            THEN LET initializer ==
                         and_then_consume(
                             IF peek_type(Parser_next(p)) = "Equal"
                             THEN Parser_expr("assignment", Parser_next(Parser_next(p)), Null)
                             ELSE Ok(Parser_next(p), Expr_Literal(Null)),
                             "Semicolon")
                 IN  IF ~initializer.ok THEN initializer
                     ELSE Ok(initializer.st, Stmt_Var(p.tokens[p.pos].lexeme, initializer.v))
            ELSE Err(p, ParseError("UnexpectedToken", "variable name", p, p.pos))
      [] rule = "statement" ->
            CASE peek_type(p) = "If" -> Parser_stmt("if_statement", Parser_next(p), Null)
              [] peek_type(p) = "Print" -> Parser_stmt("print_statement", Parser_next(p), Null)
              [] peek_type(p) = "Return" -> Parser_stmt("return_statement", p, Null)
              [] peek_type(p) = "While" -> Parser_stmt("while_statement", Parser_next(p), Null)
              [] peek_type(p) = "For" -> Parser_stmt("for_statement", Parser_next(p), Null)
              [] peek_type(p) = "LeftBrace" -> Parser_stmt("block", Parser_next(p), Null)
              [] OTHER -> Parser_stmt("expression_statement", p, Null)
      [] rule = "return_statement" ->
            LET keyword == consume(p, "Return")
            IN  IF ~keyword.ok THEN keyword
                ELSE LET value ==
                             and_then_consume(
                                 IF peek_type(keyword.st) = "Semicolon"
                                 THEN Ok(keyword.st, Expr_Literal(Null))
                                 ELSE Parser_expr("assignment", keyword.st, Null),
                                 "Semicolon")
                     IN  IF ~value.ok THEN value ELSE Ok(value.st, Stmt_Return(value.v))
      [] rule = "print_statement" ->
            LET expr == and_then_consume(Parser_expr("assignment", p, Null), "Semicolon")
            IN  IF ~expr.ok THEN expr ELSE Ok(expr.st, Stmt_Print(expr.v))
      \* the loop of block over the declarations up to the closing brace; x is
      \* the statements pushed so far
      [] rule = "block_statements" ->
            IF is_end(p) \/ peek_type(p) = "RightBrace" THEN Ok(p, x)
            ELSE LET d == Parser_stmt("declaration", p, Null)
                 IN  IF ~d.ok THEN d
                     ELSE Parser_stmt("block_statements", d.st, Append(x, d.v))
      [] rule = "block" ->
            LET statements == and_then_consume(Parser_stmt("block_statements", p, <<>>),
                                               "RightBrace")
            IN  IF ~statements.ok THEN statements
                ELSE Ok(statements.st, Stmt_Block(statements.v))
      [] rule = "expression_statement" ->
            LET expr == and_then_consume(Parser_expr("assignment", p, Null), "Semicolon")
            IN  IF ~expr.ok THEN expr ELSE Ok(expr.st, Stmt_Expression(expr.v))
      [] rule = "if_statement" ->
            LET condition == Parser_expr("paren_condition", p, Null)
            IN  IF ~condition.ok THEN condition
                ELSE LET then_branch == Parser_stmt("declaration", condition.st, Null)
                     IN  IF ~then_branch.ok THEN then_branch
                         ELSE IF peek_type(then_branch.st) = "Else"
                              THEN LET else_branch ==
                                           Parser_stmt("declaration",
                                                       Parser_next(then_branch.st), Null)
                                   IN  IF ~else_branch.ok THEN else_branch
                                       ELSE Ok(else_branch.st,
                                               Stmt_If(condition.v, then_branch.v,
                                                       <<else_branch.v>>))
                              ELSE Ok(then_branch.st,
                                      Stmt_If(condition.v, then_branch.v, <<>>))
      [] rule = "while_statement" ->
            LET condition == Parser_expr("paren_condition", p, Null)
            IN  IF ~condition.ok THEN condition
                ELSE LET body == Parser_stmt("declaration", condition.st, Null)
                     IN  IF ~body.ok THEN body
                         ELSE Ok(body.st, Stmt_While(condition.v, body.v))
      [] rule = "for_statement" ->
            IF ~consume(p, "LeftParen").ok THEN consume(p, "LeftParen")
            ELSE LET initializer ==
                         CASE peek_type(Parser_next(p)) = "Semicolon" ->
                                  [some |-> FALSE, r |-> Ok(Parser_next(Parser_next(p)), Null)]
                           [] peek_type(Parser_next(p)) = "Var" ->
                                  [some |-> TRUE,
                                   r |-> Parser_stmt("var_declaration",
                                                     Parser_next(Parser_next(p)), Null)]
                           [] OTHER ->
                                  [some |-> TRUE,
                                   r |-> Parser_stmt("expression_statement",
                                                     Parser_next(p), Null)]
                     condition ==
                         and_then_consume(
                             IF peek_type(initializer.r.st) = "Semicolon"
                             THEN Ok(initializer.r.st, Expr_Literal(Bool(TRUE)))
                             ELSE Parser_expr("assignment", initializer.r.st, Null),
                             "Semicolon")
                 IN  IF ~condition.ok THEN condition
                     ELSE LET increment ==
                                  IF peek_type(condition.st) = "RightParen"
                                  THEN [some |-> FALSE, r |-> Ok(condition.st, Null)]
                                  ELSE [some |-> TRUE,
                                        r |-> Parser_expr("assignment", condition.st, Null)]
                              paren == consume(increment.r.st, "RightParen")
                          IN  IF ~paren.ok THEN paren
                              ELSE for_desugar(initializer, condition, increment,
                                               Parser_stmt("statement", paren.st, Null))

\* the operators of logic_or, logical_and, equality, comparision, term and factor
level_operators ==
    << {"Or"}, {"And"}, {"BangEqual", "EqualEqual"},
       {"Greater", "GreaterEqual", "Less", "LessEqual"}, {"Minus", "Plus"}, {"Slash", "Star"} >>

\* The functions of the parser that return an expression; rule names the
\* function, p is its parser (for a loop: the loop's state) and x its argument.
Parser_expr(rule, p, x) ==
    \* Parser::expression and Parser::assignment
    CASE rule = "assignment" ->
            LET expr == Parser_expr("binary", p, 1)
            IN  IF ~expr.ok THEN expr
                ELSE IF peek_type(expr.st) = "Equal"
                     THEN LET value == Parser_expr("assignment", Parser_next(expr.st), Null)
                          IN  IF ~value.ok THEN value
                              ELSE IF expr.v.t = "Variable"
                                   THEN Ok(value.st,
                                           Expr_Assign(expr.v.name, value.v, expr.v.id))
                                   ELSE Err(value.st,
                                            without_panic(
                                                ParseError("InvalidAssignment", "",
                                                           expr.st, expr.st.pos)))
                     ELSE expr
      \* logic_or, logical_and, equality, comparision, term, factor (x is the
      \* level): the operand of the next level, down to unary, then the loop
      \* over the operators of the level
      [] rule = "binary" ->
            IF x > Len(level_operators) THEN Parser_expr("unary", p, Null)
            ELSE Parser_expr("binary_rest", Parser_expr("binary", p, x + 1), x)
      \* while let Some(operator) = self.match_peek_type_then_advance(..) { .. }
      \* on the left operand p
      [] rule = "binary_rest" ->
            IF ~p.ok THEN p
            ELSE IF peek_type(p.st) \in level_operators[x]
                 THEN LET right == Parser_expr("binary", Parser_next(p.st), x + 1)
                      IN  IF ~right.ok THEN right
                          ELSE Parser_expr(
                                   "binary_rest",
                                   Ok(right.st,
                                      IF x <= 2
                                      THEN Expr_Logical(p.v, peek_type(p.st), right.v)
                                      ELSE Expr_Binary(p.v, peek_type(p.st), right.v)),
                                   x)
                 ELSE p
      [] rule = "unary" ->
            IF peek_type(p) \in {"Bang", "Minus"}
            THEN LET right == Parser_expr("unary", Parser_next(p), Null)
                 IN  IF ~right.ok THEN right
                     ELSE Ok(right.st, Expr_Unary(peek_type(p), right.v))
            ELSE Parser_expr("call", Parser_expr("primary", p, Null), Null)
      \* the loop of Parser::call on the primary p: a call for every opening
      \* parenthesis
      [] rule = "call" ->
            IF ~p.ok THEN p
            ELSE IF peek_type(p.st) = "LeftParen"
                 THEN Parser_expr("call",
                                  Parser_expr("finish_call", Parser_next(p.st), p.v), Null)
                 ELSE p
      \* the loop of finish_call over the arguments, as the loop over the
      \* parameters
      [] rule = "call_arguments" ->
            IF p.done THEN p
            ELSE IF x > 1
                 THEN Parser_expr("call_arguments",
                                  Parser_expr("call_arguments", p, x \div 2), x - x \div 2)
            ELSE LET arg == Parser_expr("assignment", p.st, Null)
                 IN  IF ~arg.ok
                     THEN [st |-> arg.st, ok |-> FALSE, v |-> arg.v, done |-> TRUE]
                     ELSE IF Len(p.v) + 1 >= MAXIMUM_ARGUMENTS
                          THEN [st |-> arg.st, ok |-> FALSE, done |-> TRUE,
                                v |-> ParseError("MaximumArguments", "", arg.st,
                                                 arg.st.pos)]
                          ELSE IF consume(arg.st, "Comma").ok
                               THEN [st |-> Parser_next(arg.st), ok |-> TRUE,
                                     v |-> Append(p.v, arg.v), done |-> FALSE]
                               ELSE [st |-> arg.st, ok |-> TRUE,
                                     v |-> Append(p.v, arg.v), done |-> TRUE]
      \* x is the callee
      [] rule = "finish_call" ->
            LET arguments ==
                    and_then_consume(
                        IF peek_type(p) # "RightParen"
                        THEN list_result(Parser_expr("call_arguments", list_loop(p),
                                                     Len(p.tokens)))
                        ELSE Ok(p, <<>>),
                        "RightParen")
            IN  IF ~arguments.ok THEN arguments
                ELSE Ok(arguments.st, Expr_Call(x, arguments.v))
      [] rule = "primary" ->
            CASE peek_type(p) = "Nil" -> Ok(Parser_next(p), Expr_Literal(Null))
              [] peek_type(p) = "False" -> Ok(Parser_next(p), Expr_Literal(Bool(FALSE)))
              [] peek_type(p) = "True" -> Ok(Parser_next(p), Expr_Literal(Bool(TRUE)))
              [] peek_type(p) = "Number" ->
                    Ok(Parser_next(p), Expr_Literal(Number(p.tokens[p.pos].number)))
              [] peek_type(p) = "String" ->
                    Ok(Parser_next(p), Expr_Literal(String(p.tokens[p.pos].lexeme)))
              [] peek_type(p) = "LeftParen" ->
                    LET expr == and_then_consume(
                                    Parser_expr("assignment", Parser_next(p), Null),
                                    "RightParen")
                    IN  IF ~expr.ok THEN expr ELSE Ok(expr.st, Expr_Grouping(expr.v))
              [] peek_type(p) = "Identifier" ->
                    Ok(Parser_next(p), Expr_Variable(p.tokens[p.pos].lexeme, p.pos))
              [] OTHER -> Err(p, ParseError("ExpectedExpression", "", p, p.pos))
      \* consume(LeftParen)?; expression()?; consume(RightParen)? of if and while
      [] rule = "paren_condition" ->
            IF ~consume(p, "LeftParen").ok THEN consume(p, "LeftParen")
            ELSE and_then_consume(Parser_expr("assignment", consume(p, "LeftParen").st, Null),
                                  "RightParen")

\* Parser::synchronize
RECURSIVE synchronize(_)
synchronize(p) ==
    IF is_end(p) \/ peek_type(p) \in {"Class", "Fun", "Var", "For", "If", "While",
                                      "Print", "Return"}
    THEN p
    ELSE IF peek_type(p) = "Semicolon" THEN Parser_next(p)
         ELSE synchronize(Parser_next(p))

\* one iteration of the loop of Parser::parse on the result r of declaration()
parse_step(p, r) ==
    IF r.ok
    THEN [r.st EXCEPT !.statements = Append(@, r.v),
                      !.steps = Append(@, [start |-> p.pos, failed_at |-> r.st.pos,
                                           resumed |-> r.st.pos, ok |-> TRUE, v |-> r.v])]
    ELSE [(IF r.v.panic_mode THEN synchronize(r.st) ELSE r.st)
             EXCEPT !.errors = Append(@, r.v),
                    !.steps = Append(@, [start |-> p.pos, failed_at |-> r.st.pos,
                                         resumed |-> (IF r.v.panic_mode
                                                      THEN synchronize(r.st) ELSE r.st).pos,
                                         ok |-> FALSE, v |-> r.v])]

(***************************************************************************)
(* Scanner (scanner.rs).  The source is the sequence of its characters;    *)
(* the scanner reads it through a position (it) and a stack of characters  *)
(* pushed back (buffer).  The record also holds the ScanResult being       *)
(* built (tokens, errors) and, for each iteration of the loop of           *)
(* scan_tokens, the number of characters left before and after it (steps). *)
(***************************************************************************)
is_ascii_digit(c) == c \in {"0", "1", "2", "3", "4", "5", "6", "7", "8", "9"}

is_ascii_alphabetic(c) ==
    c \in {"a", "b", "c", "d", "e", "f", "g", "h", "i", "j", "k", "l", "m", "n", "o", "p",
           "q", "r", "s", "t", "u", "v", "w", "x", "y", "z", "A", "B", "C", "D", "E", "F",
           "G", "H", "I", "J", "K", "L", "M", "N", "O", "P", "Q", "R", "S", "T", "U", "V",
           "W", "X", "Y", "Z"}

\* alpha for identifier
is_alpha(c) == is_ascii_alphabetic(c) \/ c = "_"

\* generate_static_reserved_keywords and the lookup of identifier()
reserved_keywords(identifier) ==
    CASE identifier = "and" -> "And"
      [] identifier = "class" -> "Class"
      [] identifier = "else" -> "Else"
      [] identifier = "false" -> "False"
      [] identifier = "for" -> "For"
      [] identifier = "fun" -> "Fun"
      [] identifier = "if" -> "If"
      [] identifier = "nil" -> "Nil"
      [] identifier = "or" -> "Or"
      [] identifier = "print" -> "Print"
      [] identifier = "return" -> "Return"
      [] identifier = "super" -> "Super"
      [] identifier = "this" -> "This"
      [] identifier = "true" -> "True"
      [] identifier = "var" -> "Var"
      [] identifier = "while" -> "While"
      [] OTHER -> "Identifier"

\* Scanner::new and ScanResult::default
Scanner_new(chars) ==
    [it |-> chars, pos |-> 1, buffer |-> <<>>, line |-> 1,
     tokens |-> <<>>, errors |-> <<>>, steps |-> <<>>]

\* the characters the scanner has not consumed: the iterator's and the buffer's
unread(s) == Len(s.it) - s.pos + 1 + Len(s.buffer)

\* Scanner::prev
Scanner_prev(s, c) == [s EXCEPT !.buffer = Append(@, c)]

\* Scanner::next
Scanner_next(s) ==
    IF s.buffer = <<>>
    THEN IF s.pos <= Len(s.it)
         THEN [st |-> [s EXCEPT !.pos = @ + 1], c |-> Some(s.it[s.pos])]
         ELSE [st |-> s, c |-> None]
    ELSE [st |-> [s EXCEPT !.buffer = SubSeq(@, 1, Len(@) - 1)],
          c |-> Some(s.buffer[Len(s.buffer)])]

\* the closures given to read_while
matches(f, c) ==
    CASE f = "is_ascii_digit" -> is_ascii_digit(c)
      [] f = "is_ascii_alphanumeric" -> is_ascii_alphabetic(c) \/ is_ascii_digit(c)
      [] f = "not newline" -> c # "\n"
      [] f = "not quote" -> c # "\""

\* Scanner::read_while: string is the text read so far and its characters
RECURSIVE read_while(_, _, _)
read_while(s, f, string) ==
    IF ~Scanner_next(s).c.some THEN [st |-> s, v |-> string]
    ELSE IF ~matches(f, Scanner_next(s).c.v)
    THEN [st |-> Scanner_prev(Scanner_next(s).st, Scanner_next(s).c.v), v |-> string]
    ELSE read_while([Scanner_next(s).st
                        EXCEPT !.line = IF Scanner_next(s).c.v = "\n" THEN @ + 1 ELSE @],
                    f,
                    [text |-> string.text \o Scanner_next(s).c.v,
                     chars |-> Append(string.chars, Scanner_next(s).c.v)])

empty_string == [text |-> "", chars |-> <<>>]

\* numstr.parse::<Number>() of a string of digits
RECURSIVE parse_digits(_, _)
parse_digits(chars, n) ==
    IF n = 0 THEN 0
    ELSE parse_digits(chars, n - 1) * 10
         + (CHOOSE d \in 0..9 : ToString(d) = chars[n])

\* Scanner::make_token for the token of a number: a number without decimals is the
\* integer it denotes, one with decimals keeps its two parts
number_token(numstr, decimal) ==
    IF decimal.chars = <<>>
    THEN Token("Number", numstr.text, parse_digits(numstr.chars, Len(numstr.chars)))
    ELSE [type |-> "Number", lexeme |-> numstr.text \o "." \o decimal.text,
          whole |-> parse_digits(numstr.chars, Len(numstr.chars)),
          decimal |-> decimal.text]

\* Scanner::number
number(s) ==
    LET numstr == read_while(s, "is_ascii_digit", empty_string)
        n == Scanner_next(numstr.st)
    IN  IF ~n.c.some THEN Ok(n.st, number_token(numstr.v, empty_string))
        ELSE IF n.c.v = "."
        THEN LET decimal == read_while(n.st, "is_ascii_digit", empty_string)
             IN  IF decimal.v.chars = <<>>
                 THEN Ok(Scanner_prev(decimal.st, "."), number_token(numstr.v, empty_string))
                 ELSE Ok(decimal.st, number_token(numstr.v, decimal.v))
        ELSE Ok(Scanner_prev(n.st, n.c.v), number_token(numstr.v, empty_string))

\* Scanner::identifier
identifier(s) ==
    LET name == read_while(s, "is_ascii_alphanumeric", empty_string)
    IN  Ok(name.st, Token(reserved_keywords(name.v.text), name.v.text, 0))

\* Scanner::string
string(s) ==
    LET text == read_while(s, "not quote", empty_string)
    IN  IF Scanner_next(text.st).c.some
        THEN Ok(Scanner_next(text.st).st, Token("String", text.v.text, 0))
        ELSE Err(text.st, [type |-> "UnterminatedString", line |-> text.st.line])

\* the arms of scan_token for ! = < >: the second character decides
one_or_two(s, lexeme, single, double) ==
    LET n == Scanner_next(s)
    IN  IF n.c.some /\ n.c.v = "=" THEN Ok(n.st, Token(double, lexeme \o "=", 0))
        ELSE IF n.c.some THEN Ok(Scanner_prev(n.st, n.c.v), Token(single, lexeme, 0))
        ELSE Ok(n.st, Token(single, lexeme, 0))

\* Scanner::scan_token: Option<Result<Token, LoxError>> with the scanner after it
scan_token(s, c) ==
    CASE c = "(" -> Some(Ok(s, Token("LeftParen", c, 0)))
      [] c = ")" -> Some(Ok(s, Token("RightParen", c, 0)))
      [] c = "{" -> Some(Ok(s, Token("LeftBrace", c, 0)))
      [] c = "}" -> Some(Ok(s, Token("RightBrace", c, 0)))
      [] c = "," -> Some(Ok(s, Token("Comma", c, 0)))
      [] c = "." -> Some(Ok(s, Token("Dot", c, 0)))
      [] c = "-" -> Some(Ok(s, Token("Minus", c, 0)))
      [] c = "+" -> Some(Ok(s, Token("Plus", c, 0)))
      [] c = ";" -> Some(Ok(s, Token("Semicolon", c, 0)))
      [] c = "*" -> Some(Ok(s, Token("Star", c, 0)))
      [] c = "!" -> Some(one_or_two(s, c, "Bang", "BangEqual"))
      [] c = "=" -> Some(one_or_two(s, c, "Equal", "EqualEqual"))
      [] c = "<" -> Some(one_or_two(s, c, "Less", "LessEqual"))
      [] c = ">" -> Some(one_or_two(s, c, "Greater", "GreaterEqual"))
      [] c = "/" ->
            LET n == Scanner_next(s)
            IN  IF n.c.some /\ n.c.v = "/"
                THEN [some |-> FALSE, v |-> Ok(read_while(n.st, "not newline", empty_string).st,
                                               Null)]
                ELSE IF n.c.some THEN Some(Ok(Scanner_prev(n.st, n.c.v), Token("Slash", c, 0)))
                ELSE Some(Ok(n.st, Token("Slash", c, 0)))
      [] c = "\"" -> Some(string(s))
      [] c \in {"\n", " ", "\r", "\t"} ->
            [some |-> FALSE,
             v |-> Ok([s EXCEPT !.line = IF c = "\n" THEN @ + 1 ELSE @], Null)]
      [] OTHER ->
            IF is_ascii_digit(c) THEN Some(number(Scanner_prev(s, c)))
            ELSE IF is_alpha(c) THEN Some(identifier(Scanner_prev(s, c)))
            ELSE Some(Err(s, [type |-> "UnexpectedCharacter", line |-> s.line, c |-> c]))

\* ScanResult::update on the outcome r of scan_token, read before characters were left
scan_result_update(r, before) ==
    LET s == [r.v.st EXCEPT !.steps = Append(@, [before |-> before,
                                                 after |-> unread(r.v.st),
                                                 ok |-> r.v.ok, token |-> r.some])]
    IN  IF ~r.some THEN s
        ELSE IF r.v.ok THEN [s EXCEPT !.tokens = Append(@, r.v.v)]
        ELSE [s EXCEPT !.errors = Append(@, r.v.v)]

\* one iteration of the loop of scan_tokens: while let Some(c) = self.next()
scan_tokens_step(s) ==
    scan_result_update(scan_token(Scanner_next(s).st, Scanner_next(s).c.v), unread(s))

\* the end of scan_tokens: the Eof token is added
scan_tokens_end(s) == [s EXCEPT !.tokens = Append(@, Token("Eof", "", 0))]

(***************************************************************************)
(* Lox::run (lox.rs).  The scanner and the parser are read through their   *)
(* outcome: source says whether each reported an error and which           *)
(* statements the parser returned.                                         *)
(***************************************************************************)
Source(scan_error, parse_error, statements) ==
    [scan_error |-> scan_error, parse_error |-> parse_error, statements |-> statements]

\* ErrorReporter::error_msg: one report per error, joined
RECURSIVE error_msg(_, _, _)
error_msg(kind, errors, i) ==
    IF i > Len(errors) THEN ""
    ELSE kind \o ": " \o errors[i].type \o (IF i < Len(errors) THEN "\n" ELSE "")
         \o error_msg(kind, errors, i + 1)

\* run_prompt: the welcome message and the first prompt are written before any line
WELCOME_MESSAGES == "Welcome to Lox prompt"

PROMPT == ">>>"

Repl_new(lines) ==
    [lines |-> lines, writer |-> <<WELCOME_MESSAGES \o "\n" \o PROMPT \o " ">>,
     ran |-> <<>>, read |-> <<>>, done |-> <<>>]

\* Lox::default
InitLox(sources) ==
    /\ source \in sources
    /\ pc = "scan"
    /\ had_scan_error = FALSE
    /\ had_parse_error = FALSE
    /\ had_resolve_error = FALSE
    /\ had_runtime_error = FALSE
    /\ interpreter = Interpreter_new
    /\ resolver = Resolver_new(EmptyMap)
    /\ next_stmt = 1
    /\ collected = <<>>
    /\ parser = Parser_new(<<Token("Eof", "", 0)>>)
    /\ scanner = Scanner_new(<<>>)
    /\ repl = Repl_new(<<>>)

\* scanner.scan_tokens(); had_scan_error = scanner.had_error(); on error write and return
Scan ==
    /\ pc = "scan"
    /\ had_scan_error' = source.scan_error
    /\ IF source.scan_error
       THEN /\ interpreter' = Interpreter_write(interpreter, "SyntaxError")
            /\ pc' = "done"
       ELSE /\ interpreter' = interpreter
            /\ pc' = "parse"
    /\ UNCHANGED <<scanner, repl, parser, source, had_parse_error, had_resolve_error, had_runtime_error,
                   resolver, next_stmt, collected>>

\* parser.parse(); had_parse_error = parser.had_error(); on error write and return;
\* else Resolver::new(&mut self.interpreter)
Parse ==
    /\ pc = "parse"
    /\ had_parse_error' = source.parse_error
    /\ IF source.parse_error
       THEN /\ interpreter' = Interpreter_write(interpreter, "ParseError")
            /\ pc' = "done"
            /\ UNCHANGED resolver
       ELSE /\ interpreter' = interpreter
            /\ pc' = "resolve"
            /\ resolver' = Resolver_new(interpreter.locals)
    /\ UNCHANGED <<scanner, repl, parser, source, had_scan_error, had_resolve_error, had_runtime_error,
                   next_stmt, collected>>

\* filter_map(|s| match visit_stmt(s) { Err(error) => Some(error), _ => None })
filter_map(errors, r) == IF r.ok THEN errors ELSE Append(errors, r.v)

\* the resolver after the visit r of a statement
ResolveStep(r) ==
    /\ resolver' = r.st
    /\ collected' = filter_map(collected, r)

\* one step of the filter_map of Resolver::resolve: visit the next statement
ResolveStmt ==
    /\ pc = "resolve"
    /\ next_stmt <= Len(source.statements)
    /\ ResolveStep(Resolver_visit_stmt(resolver, source.statements[next_stmt]))
    /\ next_stmt' = next_stmt + 1
    /\ UNCHANGED <<scanner, repl, parser, source, pc, had_scan_error, had_parse_error, had_resolve_error,
                   had_runtime_error, interpreter>>

\* the return after the resolver's diagnostics left out
ResolveEnd_ungated ==
    /\ pc = "resolve"
    /\ next_stmt > Len(source.statements)
    /\ resolver' = [resolver EXCEPT !.errors = collected]
    /\ had_resolve_error' = (collected # <<>>)
    /\ interpreter' = IF collected # <<>>
                      THEN Interpreter_write([interpreter EXCEPT !.locals = resolver.locals],
                                             error_msg("ResolveError", collected, 1))
                      ELSE [interpreter EXCEPT !.locals = resolver.locals]
    /\ pc' = "interpret"
    /\ next_stmt' = 1
    /\ collected' = <<>>
    /\ UNCHANGED <<scanner, repl, parser, source, had_scan_error, had_parse_error, had_runtime_error>>

\* the end of Resolver::resolve (errors = collected) and the check that follows it
ResolveEnd ==
    /\ pc = "resolve"
    /\ next_stmt > Len(source.statements)
    /\ resolver' = [resolver EXCEPT !.errors = collected]
    /\ had_resolve_error' = (collected # <<>>)
    /\ IF collected # <<>>
       THEN /\ interpreter' = Interpreter_write([interpreter EXCEPT !.locals = resolver.locals],
                                                error_msg("ResolveError", collected, 1))
            /\ pc' = "done"
       ELSE /\ interpreter' = [interpreter EXCEPT !.locals = resolver.locals]
            /\ pc' = "interpret"
    /\ next_stmt' = 1
    /\ collected' = <<>>
    /\ UNCHANGED <<scanner, repl, parser, source, had_scan_error, had_parse_error, had_runtime_error>>

\* the interpreter after the visit r of a statement
InterpretStep(r) ==
    /\ interpreter' = r.st
    /\ collected' = filter_map(collected, r)

\* the iteration ended by the first error, as the ? operator would
InterpretStmt_stops ==
    /\ pc = "interpret"
    /\ next_stmt <= Len(source.statements)
    /\ InterpretStep(Interpreter_visit_stmt(interpreter, source.statements[next_stmt]))
    /\ next_stmt' = IF Interpreter_visit_stmt(interpreter, source.statements[next_stmt]).ok
                    THEN next_stmt + 1 ELSE Len(source.statements) + 1
    /\ UNCHANGED <<scanner, repl, parser, source, pc, had_scan_error, had_parse_error, had_resolve_error,
                   had_runtime_error, resolver>>

\* one step of the filter_map of Interpreter::interpret: execute the next statement
InterpretStmt ==
    /\ pc = "interpret"
    /\ next_stmt <= Len(source.statements)
    /\ InterpretStep(Interpreter_visit_stmt(interpreter, source.statements[next_stmt]))
    /\ next_stmt' = next_stmt + 1
    /\ UNCHANGED <<scanner, repl, parser, source, pc, had_scan_error, had_parse_error, had_resolve_error,
                   had_runtime_error, resolver>>

\* the end of Interpreter::interpret (errors = collected) and the report of run
InterpretEnd ==
    /\ pc = "interpret"
    /\ next_stmt > Len(source.statements)
    /\ interpreter' = IF collected # <<>>
                      THEN Interpreter_write([interpreter EXCEPT !.errors = collected],
                                             error_msg("RuntimeError", collected, 1))
                      ELSE [interpreter EXCEPT !.errors = collected]
    /\ pc' = "done"
    /\ collected' = <<>>
    /\ UNCHANGED <<scanner, repl, parser, source, had_scan_error, had_parse_error, had_resolve_error,
                   had_runtime_error, resolver, next_stmt>>

\* run_file: the exit code the process ends with after lox.run returned
run_file ==
    IF had_scan_error \/ had_parse_error \/ had_resolve_error THEN 65
    ELSE IF had_runtime_error THEN 70
    ELSE 0

Next == Scan \/ Parse \/ ResolveStmt \/ ResolveEnd \/ InterpretStmt \/ InterpretEnd

(***************************************************************************)
(* Lox::run from the tokens: the loop of Parser::parse, one declaration a  *)
(* step, then the check of had_parse_error; the resolver and the           *)
(* interpreter run on the statements the parser returned.                  *)
(***************************************************************************)
\* one iteration of the loop of Parser::parse
ParseDeclaration ==
    /\ pc = "parsing"
    /\ ~is_end(parser)
    /\ Len(parser.errors) < MaxErrors
    /\ parser' = parse_step(parser, Parser_stmt("declaration", parser, Null))
    /\ UNCHANGED <<scanner, repl, source, pc, had_scan_error, had_parse_error, had_resolve_error,
                   had_runtime_error, resolver, interpreter, next_stmt, collected>>

\* the break of the loop: parse() returns the statements and run checks had_error
ParseEnd ==
    /\ pc = "parsing"
    /\ is_end(parser)
    /\ had_parse_error' = (parser.errors # <<>>)
    /\ source' = [source EXCEPT !.parse_error = (parser.errors # <<>>),
                                !.statements = parser.statements]
    /\ IF parser.errors # <<>>
       THEN /\ interpreter' = Interpreter_write(interpreter, "ParseError")
            /\ pc' = "done"
            /\ UNCHANGED resolver
       ELSE /\ interpreter' = interpreter
            /\ pc' = "resolve"
            /\ resolver' = Resolver_new(interpreter.locals)
    /\ UNCHANGED <<scanner, repl, parser, had_scan_error, had_resolve_error, had_runtime_error,
                   next_stmt, collected>>

NextParse ==
    ParseDeclaration \/ ParseEnd \/ ResolveStmt \/ ResolveEnd \/ InterpretStmt \/ InterpretEnd

(***************************************************************************)
(* Lox::run from the characters: the loop of scan_tokens, one iteration a  *)
(* step, then the check of had_scan_error and Parser::from.                *)
(***************************************************************************)
\* one iteration of while let Some(c) = self.next() of scan_tokens
ScanToken ==
    /\ pc = "scanning"
    /\ Scanner_next(scanner).c.some
    /\ Len(scanner.tokens) < MaxTokens
    /\ scanner' = scan_tokens_step(scanner)
    /\ UNCHANGED <<repl, parser, source, pc, had_scan_error, had_parse_error,
                   had_resolve_error, had_runtime_error, resolver, interpreter, next_stmt,
                   collected>>

\* the end of the loop: Eof is added, run checks had_error and builds the parser
ScanEnd ==
    /\ pc = "scanning"
    /\ ~Scanner_next(scanner).c.some
    /\ scanner' = scan_tokens_end(scanner)
    /\ had_scan_error' = (scanner.errors # <<>>)
    /\ source' = [source EXCEPT !.scan_error = (scanner.errors # <<>>)]
    /\ IF scanner.errors # <<>>
       THEN /\ interpreter' = Interpreter_write(interpreter,
                                                error_msg("SyntaxError", scanner.errors, 1))
            /\ pc' = "done"
            /\ UNCHANGED parser
       ELSE /\ interpreter' = interpreter
            /\ pc' = "parsing"
            /\ parser' = Parser_new(scan_tokens_end(scanner).tokens)
    /\ UNCHANGED <<repl, had_parse_error, had_resolve_error, had_runtime_error, resolver,
                   next_stmt, collected>>

NextScan == ScanToken \/ ScanEnd

(***************************************************************************)
(* run_prompt (lox.rs): the loop over the lines of the reader.  repl holds *)
(* the lines not read yet and those read, what run_prompt wrote to its     *)
(* writer, the sources it gave to Lox::run, and for each line read the     *)
(* length of the interpreter's output when the line was done.              *)
(***************************************************************************)
\* if !line.ends_with(';') { line.push(';'); }
push_semicolon(line) ==
    IF line # <<>> /\ line[Len(line)] = ";" THEN line ELSE Append(line, ";")

\* Lox::reset_error on the interpreter: Interpreter::flush_error
flush_error(st) == [st EXCEPT !.errors = <<>>]

\* for line in reader.lines(): the line is completed and, when not empty, given to run
ReadLine ==
    /\ pc = "prompt"
    /\ repl.lines # <<>>
    /\ IF push_semicolon(Head(repl.lines)) # <<>>
       THEN /\ repl' = [repl EXCEPT !.lines = Tail(@),
                                    !.read = Append(@, Head(repl.lines)),
                                    !.ran = Append(@, [line |-> Len(repl.read) + 1,
                                                       source |-> push_semicolon(Head(repl.lines))])]
            /\ scanner' = Scanner_new(push_semicolon(Head(repl.lines)))
            /\ pc' = "scanning"
       ELSE /\ repl' = [repl EXCEPT !.lines = Tail(@),
                                    !.read = Append(@, Head(repl.lines)),
                                    !.done = Append(@, Len(interpreter.writer)),
                                    !.writer = Append(@, PROMPT \o " ")]
            /\ UNCHANGED <<scanner, pc>>
    /\ source' = Source(FALSE, FALSE, <<>>)
    /\ next_stmt' = 1
    /\ collected' = <<>>
    /\ UNCHANGED <<parser, had_scan_error, had_parse_error, had_resolve_error,
                   had_runtime_error, resolver, interpreter>>

\* lox.run returned: lox.reset_error() and the next prompt is written (the object
\* of run is Null on every path of this interpreter, so no value is written)
PromptAgain ==
    /\ pc = "done"
    /\ had_scan_error' = FALSE
    /\ had_parse_error' = FALSE
    /\ had_resolve_error' = FALSE
    /\ had_runtime_error' = FALSE
    /\ interpreter' = flush_error(interpreter)
    /\ repl' = [repl EXCEPT !.done = Append(@, Len(interpreter.writer)),
                            !.writer = Append(@, PROMPT \o " ")]
    /\ pc' = "prompt"
    /\ UNCHANGED <<scanner, parser, source, resolver, next_stmt, collected>>

NextRepl ==
    \/ ReadLine
    \/ PromptAgain
    \/ ScanToken
    \/ ScanEnd
    \/ ParseDeclaration
    \/ ParseEnd
    \/ ResolveStmt
    \/ ResolveEnd
    \/ InterpretStmt
    \/ InterpretEnd

(***************************************************************************)
(* Programs.  A program is the statement list the parser returns: a fixed  *)
(* list of declarations followed by up to MaxStatements statements chosen  *)
(* from a set.  Every variable expression carries its own id.              *)
(***************************************************************************)
Programs(prelude, choices) ==
    {Source(FALSE, FALSE, prelude \o seq) :
        seq \in UNION {[1..n -> choices] : n \in 0..MaxStatements}}

\* fun ok(a) { print a; }
\* fun ret(a) { { return a; print "unreachable"; } print "unreachable"; }
\* fun bad(a) { { undefinedvar; print "after error"; } print "after block"; }
\* fun outer(f, x) { var r = f(x); print "back"; return r; }
\* fun rec(n) { if (n > 1) { return rec(n - 1); } return n; }
Prelude_Call ==
    LET unreachable == Stmt_Print(Expr_Literal(String("unreachable")))
    IN  << Stmt_Function("ok", <<"a">>,
               Stmt_Block(<<Stmt_Print(Expr_Variable("a", 1))>>)),
           Stmt_Function("ret", <<"a">>,
               Stmt_Block(<<Stmt_Block(<<Stmt_Return(Expr_Variable("a", 2)), unreachable>>),
                            unreachable>>)),
           Stmt_Function("bad", <<"a">>,
               Stmt_Block(<<Stmt_Block(<<Stmt_Expression(Expr_Variable("undefinedvar", 3)),
                                         Stmt_Print(Expr_Literal(String("after error")))>>),
                            Stmt_Print(Expr_Literal(String("after block")))>>)),
           Stmt_Function("outer", <<"f", "x">>,
               Stmt_Block(<<Stmt_Var("r", Expr_Call(Expr_Variable("f", 4),
                                                    <<Expr_Variable("x", 5)>>)),
                            Stmt_Print(Expr_Literal(String("back"))),
                            Stmt_Return(Expr_Variable("r", 6))>>)),
           Stmt_Function("rec", <<"n">>,
               Stmt_Block(<<Stmt_If(Expr_Binary(Expr_Variable("n", 7), "Greater",
                                                Expr_Literal(Number(1))),
                                    Stmt_Block(<<Stmt_Return(
                                        Expr_Call(Expr_Variable("rec", 8),
                                                  <<Expr_Binary(Expr_Variable("n", 9), "Minus",
                                                                Expr_Literal(Number(1)))>>))>>),
                                    <<>>),
                            Stmt_Return(Expr_Variable("n", 10))>>)) >>

\* print ok(1);   print ret(2);   print bad(3);   print rec(2);
\* { var a = 4; print outer(bad, a); print "after"; }
\* print outer(ret, 5);
\* { -nil; print "skipped"; }
\* { ok(); print "skipped"; }
Choices_Call ==
    { Stmt_Print(Expr_Call(Expr_Variable("ok", 11), <<Expr_Literal(Number(1))>>)),
      Stmt_Print(Expr_Call(Expr_Variable("ret", 12), <<Expr_Literal(Number(2))>>)),
      Stmt_Print(Expr_Call(Expr_Variable("bad", 13), <<Expr_Literal(Number(3))>>)),
      Stmt_Print(Expr_Call(Expr_Variable("rec", 14), <<Expr_Literal(Number(2))>>)),
      Stmt_Block(<<Stmt_Var("a", Expr_Literal(Number(4))),
                   Stmt_Print(Expr_Call(Expr_Variable("outer", 15),
                                        <<Expr_Variable("bad", 16), Expr_Variable("a", 17)>>)),
                   Stmt_Print(Expr_Literal(String("after")))>>),
      Stmt_Print(Expr_Call(Expr_Variable("outer", 18),
                           <<Expr_Variable("ret", 19), Expr_Literal(Number(5))>>)),
      Stmt_Block(<<Stmt_Expression(Expr_Unary("Minus", Expr_Literal(Null))),
                   Stmt_Print(Expr_Literal(String("skipped")))>>),
      Stmt_Block(<<Stmt_Expression(Expr_Call(Expr_Variable("ok", 20), <<>>)),
                   Stmt_Print(Expr_Literal(String("skipped")))>>) }

InitCall == InitLox(Programs(Prelude_Call, Choices_Call))

SpecCall == InitCall /\ [][Next]_vars

(***************************************************************************)
(* Calls and blocks (SpecCall)                                             *)
(***************************************************************************)
\* C1: after every call expression the interpreter's environment is the frame
\* it was before the call, whether the body of the callee completed, raised a
\* runtime error or returned, nested and recursive calls included.
CallRestoresEnvironment ==
    /\ \A i \in 1..Len(interpreter.calls) :
          interpreter.calls[i].after = interpreter.calls[i].before
    /\ \A i \in 1..Len(interpreter.call_exprs) :
          interpreter.call_exprs[i].after = interpreter.call_exprs[i].before

\* a run in which a nested call from inside a block ended by an error, a
\* recursive call ended by a return and a call ended normally
CallRestoresEnvironment_witness ==
    LET calls == interpreter.calls
    IN  /\ \E i \in 1..Len(calls) : /\ calls[i].exit = "error"
                                    /\ calls[i].depth >= 2
                                    /\ calls[i].before # NoLink
        /\ \E i \in 1..Len(calls) : /\ calls[i].exit = "return"
                                    /\ calls[i].name = "rec"
                                    /\ calls[i].depth >= 2
        /\ \E i \in 1..Len(calls) : calls[i].exit = "ok"
        /\ \E i \in 1..Len(interpreter.call_exprs) :
              interpreter.call_exprs[i].before # NoLink

\* C2: a call whose body raised a real runtime error yields that error to its
\* caller, not a normal value, so the run reports it.
CallYieldsBodyError ==
    /\ \A i \in 1..Len(interpreter.calls) :
          interpreter.calls[i].exit = "error" =>
              /\ ~interpreter.calls[i].result.ok
              /\ interpreter.calls[i].result.v = interpreter.calls[i].raised
    /\ (pc = "done" /\ \E i \in 1..Len(interpreter.calls) :
                          interpreter.calls[i].exit = "error")
          => interpreter.errors # <<>>

\* C3: a block pushes exactly one frame, whose parent is the frame current
\* before it, and pops it on every exit path; the statements after the first
\* one that yields an error or a Return are not executed.
BlockPushesAndPopsOneFrame ==
    /\ \A i \in 1..Len(interpreter.blocks) :
          LET b == interpreter.blocks[i]
          IN  /\ b.pushed = 1
              /\ b.fresh
              /\ b.parent = b.before
              /\ b.after = b.before
              /\ b.exit = "ok" => b.ran = b.len /\ b.hit = 0
              /\ b.exit # "ok" => b.ran = b.hit
    /\ \A i \in 1..Len(interpreter.writer) :
          interpreter.writer[i] \notin {"unreachable", "after error", "after block", "skipped"}
    /\ pc = "interpret" => interpreter.environment = NoLink

\* a run with a block left by an error, one left by a Return and one that
\* completed, each of the first two with statements after the exit, one of
\* them nested in a frame
BlockPushesAndPopsOneFrame_witness ==
    LET blocks == interpreter.blocks
    IN  /\ \E i \in 1..Len(blocks) : /\ blocks[i].exit = "error"
                                     /\ blocks[i].hit < blocks[i].len
                                     /\ blocks[i].before # NoLink
        /\ \E i \in 1..Len(blocks) : /\ blocks[i].exit = "return"
                                     /\ blocks[i].hit < blocks[i].len
        /\ \E i \in 1..Len(blocks) : blocks[i].exit = "ok" /\ blocks[i].len >= 1

\* var a = "global";
\* var peek;
\* fun makeCounter() { var i = 0; fun count() { i = i + 1; print i; }
\*                     fun get() { print i; } peek = get; return count; }
\* fun callIt(f) { var a = "call site"; f(); }
Prelude_Closure ==
    << Stmt_Var("a", Expr_Literal(String("global"))),
       Stmt_Var("peek", Expr_Literal(Null)),
       Stmt_Function("makeCounter", <<>>,
           Stmt_Block(<<Stmt_Var("i", Expr_Literal(Number(0))),
                        Stmt_Function("count", <<>>,
                            Stmt_Block(<<Stmt_Expression(
                                             Expr_Assign("i", Expr_Binary(Expr_Variable("i", 31),
                                                                          "Plus",
                                                                          Expr_Literal(Number(1))),
                                                         32)),
                                         Stmt_Print(Expr_Variable("i", 33))>>)),
                        Stmt_Function("get", <<>>,
                            Stmt_Block(<<Stmt_Print(Expr_Variable("i", 34))>>)),
                        Stmt_Expression(Expr_Assign("peek", Expr_Variable("get", 35), 36)),
                        Stmt_Return(Expr_Variable("count", 37))>>)),
       Stmt_Function("callIt", <<"f">>,
           Stmt_Block(<<Stmt_Var("a", Expr_Literal(String("call site"))),
                        Stmt_Expression(Expr_Call(Expr_Variable("f", 38), <<>>))>>)) >>

\* { fun showA() { print a; } showA(); var a = "block"; showA(); }
\* { var a = "declaration"; fun g() { print a; } callIt(g); g(); }
\* var c1 = makeCounter();      var c2 = makeCounter();
\* { c1(); c2(); c1(); peek(); c1(); }
\* c1();      peek();
Choices_Closure ==
    LET call(name, id) == Stmt_Expression(Expr_Call(Expr_Variable(name, id), <<>>))
    IN  { Stmt_Block(<<Stmt_Function("showA", <<>>,
                           Stmt_Block(<<Stmt_Print(Expr_Variable("a", 41))>>)),
                       call("showA", 42),
                       Stmt_Var("a", Expr_Literal(String("block"))),
                       call("showA", 43)>>),
          Stmt_Block(<<Stmt_Var("a", Expr_Literal(String("declaration"))),
                       Stmt_Function("g", <<>>,
                           Stmt_Block(<<Stmt_Print(Expr_Variable("a", 44))>>)),
                       Stmt_Expression(Expr_Call(Expr_Variable("callIt", 45),
                                                 <<Expr_Variable("g", 46)>>)),
                       call("g", 47)>>),
          Stmt_Var("c1", Expr_Call(Expr_Variable("makeCounter", 48), <<>>)),
          Stmt_Var("c2", Expr_Call(Expr_Variable("makeCounter", 49), <<>>)),
          Stmt_Block(<<call("c1", 50), call("c2", 51), call("c1", 52), call("peek", 53),
                       call("c1", 54)>>),
          call("c1", 55),
          call("peek", 56) }

InitClosure == InitLox(Programs(Prelude_Closure, Choices_Closure))

SpecClosure == InitClosure /\ [][Next]_vars

(***************************************************************************)
(* Closures (SpecClosure)                                                  *)
(***************************************************************************)
\* C4: the body of a called function runs in a fresh frame whose parent is the
\* environment that was current when the function's declaration was executed,
\* whatever the environment of the call site; a free variable of the body is
\* the same binding on every call, even when the name is declared later in a
\* scope enclosing the declaration.
ClosureIsDeclarationEnvironment ==
    /\ \A i \in 1..Len(interpreter.calls) :
          LET c == interpreter.calls[i]
          IN  /\ c.fresh
              /\ c.parent = c.closure
              /\ \E j \in 1..Len(interpreter.functions) :
                    /\ interpreter.functions[j].name = c.name
                    /\ interpreter.functions[j].environment = c.closure
    /\ \A l1, l2 \in interpreter.lookups :
          (/\ l1.id = l2.id
           /\ l1.call.name # ""
           /\ l1.call.name = l2.call.name
           /\ l1.call.closure = l2.call.closure
           /\ l1.binding < l1.call.frame
           /\ l2.binding < l2.call.frame) => l1.binding = l2.binding
    /\ \A i \in 1..Len(interpreter.prints) :
          LET p == interpreter.prints[i]
          IN  /\ p.call.name = "showA" => p.text = "global"
              /\ p.call.name = "g" => p.text = "declaration"

\* showA was called before and after the block declared its own a, and g was
\* called from a frame that declares a and from the block that declares g
ClosureIsDeclarationEnvironment_witness ==
    /\ Cardinality({i \in 1..Len(interpreter.prints) :
                       interpreter.prints[i].call.name = "showA"}) = 2
    /\ \E i, j \in 1..Len(interpreter.calls) :
          /\ interpreter.calls[i].name = "g"
          /\ interpreter.calls[j].name = "g"
          /\ interpreter.calls[i].before # interpreter.calls[j].before
          /\ interpreter.calls[i].before # interpreter.calls[i].closure

\* C5: a write a closure makes to a captured variable stays in the shared frame:
\* the n-th call of the closure one makeCounter() call returned prints n, and
\* the other closure that captured the same frame prints the count reached.
CountCalls(closure, i) ==
    Cardinality({j \in 1..i : /\ interpreter.prints[j].call.name = "count"
                              /\ interpreter.prints[j].call.closure = closure})

CounterIncreases ==
    \A i \in 1..Len(interpreter.prints) :
        LET p == interpreter.prints[i]
        IN  /\ p.call.name = "count" => p.text = ToString(CountCalls(p.call.closure, i))
            /\ p.call.name = "get" => p.text = ToString(CountCalls(p.call.closure, i))

\* two counters were called in turn, one of them three times, and get read
\* the count of its counter
CounterIncreases_witness ==
    LET prints == interpreter.prints
    IN  /\ \E i \in 1..Len(prints) : prints[i].call.name = "count" /\ prints[i].text = "3"
        /\ \E i, j \in 1..Len(prints) :
              /\ prints[i].call.name = "count"
              /\ prints[j].call.name = "count"
              /\ prints[i].call.closure # prints[j].call.closure
        /\ \E i \in 1..Len(prints) : prints[i].call.name = "get" /\ prints[i].text = "1"

\* var g = "global";
\* class A { me() { return this; } }
\* fun f(p) { var l = p; return l + g; }
Prelude_Resolve ==
    << Stmt_Var("g", Expr_Literal(String("global"))),
       Stmt_Class("A", <<>>,
           <<Stmt_Function("me", <<>>, Stmt_Block(<<Stmt_Return(Expr_This(61))>>))>>),
       Stmt_Function("f", <<"p">>,
           Stmt_Block(<<Stmt_Var("l", Expr_Variable("p", 62)),
                        Stmt_Return(Expr_Binary(Expr_Variable("l", 63), "Plus",
                                                Expr_Variable("g", 64)))>>)) >>

\* { var x = 1; { print x; x = 2; print g; g = x; } print x; }
\* print f(1);
\* class B : A {}
\* { class P {} class Q : P {} print Q; }
\* print A().me();
\* g = "changed";
Choices_Resolve ==
    { Stmt_Block(<<Stmt_Var("x", Expr_Literal(Number(1))),
                   Stmt_Block(<<Stmt_Print(Expr_Variable("x", 65)),
                                Stmt_Expression(Expr_Assign("x", Expr_Literal(Number(2)), 66)),
                                Stmt_Print(Expr_Variable("g", 67)),
                                Stmt_Expression(Expr_Assign("g", Expr_Variable("x", 68), 69))>>),
                   Stmt_Print(Expr_Variable("x", 70))>>),
      Stmt_Print(Expr_Call(Expr_Variable("f", 71), <<Expr_Literal(Number(1))>>)),
      Stmt_Class("B", <<Expr_Variable("A", 72)>>, <<>>),
      Stmt_Block(<<Stmt_Class("P", <<>>, <<>>),
                   Stmt_Class("Q", <<Expr_Variable("P", 73)>>, <<>>),
                   Stmt_Print(Expr_Variable("Q", 74))>>),
      Stmt_Print(Expr_Call(Expr_Get(Expr_Call(Expr_Variable("A", 75), <<>>), "me"), <<>>)),
      Stmt_Expression(Expr_Assign("g", Expr_Literal(String("changed")), 76)) }

InitResolve == InitLox(Programs(Prelude_Resolve, Choices_Resolve))

SpecResolve == InitResolve /\ [][Next]_vars

(***************************************************************************)
(* Resolution (SpecResolve)                                                *)
(***************************************************************************)
\* C6: in a run without resolve errors, every variable reference or
\* assignment the interpreter evaluates, the superclass name of a class
\* statement included, has a depth in locals if a scope enclosing it declares
\* its name, and has no entry if only the global scope declares it.
EvaluatedReferencesAreResolved ==
    \A l \in interpreter.lookups :
        \E r \in resolver.refs : r.id = l.id /\ (l.resolved <=> r.enclosing)

\* class A { f() { print "A.f"; } g() { print "A.g"; } }
\* class B : A { g() { print "B.g"; } }
\* class C : B { init() { this.x = 1; return; print "unreachable"; } }
\* class P { init(v) { this.v = v; } }
Prelude_Class ==
    LET method(name, text) ==
            Stmt_Function(name, <<>>, Stmt_Block(<<Stmt_Print(Expr_Literal(String(text)))>>))
    IN  << Stmt_Class("A", <<>>, <<method("f", "A.f"), method("g", "A.g")>>),
           Stmt_Class("B", <<Expr_Variable("A", 81)>>, <<method("g", "B.g")>>),
           Stmt_Class("C", <<Expr_Variable("B", 82)>>,
               <<Stmt_Function("init", <<>>,
                     Stmt_Block(<<Stmt_Expression(Expr_Set(Expr_This(83), "x",
                                                           Expr_Literal(Number(1)))),
                                  Stmt_Return(Expr_Literal(Null)),
                                  Stmt_Print(Expr_Literal(String("unreachable")))>>))>>),
           Stmt_Class("P", <<>>,
               <<Stmt_Function("init", <<"v">>,
                     Stmt_Block(<<Stmt_Expression(Expr_Set(Expr_This(84), "v",
                                                           Expr_Variable("v", 85)))>>))>>) >>

\* A().f();    B().f();    C().f();    C().g();    B().z();
\* { var p = P(1); var q = p.init(2); print q == p; print p.v; }
\* print C().x;
Choices_Class ==
    LET invoke(class, id, name) ==
            Stmt_Expression(Expr_Call(Expr_Get(Expr_Call(Expr_Variable(class, id), <<>>), name),
                                      <<>>))
    IN  { invoke("A", 86, "f"),
          invoke("B", 87, "f"),
          invoke("C", 88, "f"),
          invoke("C", 89, "g"),
          invoke("B", 90, "z"),
          Stmt_Block(<<Stmt_Var("p", Expr_Call(Expr_Variable("P", 91),
                                               <<Expr_Literal(Number(1))>>)),
                       Stmt_Var("q", Expr_Call(Expr_Get(Expr_Variable("p", 92), "init"),
                                               <<Expr_Literal(Number(2))>>)),
                       Stmt_Print(Expr_Binary(Expr_Variable("q", 93), "EqualEqual",
                                              Expr_Variable("p", 94))),
                       Stmt_Print(Expr_Get(Expr_Variable("p", 95), "v"))>>),
          Stmt_Print(Expr_Get(Expr_Call(Expr_Variable("C", 96), <<>>), "x")) }

InitClass == InitLox(Programs(Prelude_Class, Choices_Class))

SpecClass == InitClass /\ [][Next]_vars

(***************************************************************************)
(* Classes and instances (SpecClass)                                       *)
(***************************************************************************)
\* the nearest definition of a method along the whole superclass chain
RECURSIVE MethodOfChain(_, _)
MethodOfChain(class, name) ==
    IF name \in DOMAIN class.methods THEN Some(class.methods[name])
    ELSE IF class.superclass = <<>> THEN None
         ELSE MethodOfChain(class.superclass[1], name)

\* C7: a property get whose name is not a field finds the method the
\* instance's class or any ancestor of it defines, the nearest one winning,
\* and reports UndefinedProperty only when no class of the chain defines it.
GetWalksSuperclassChain ==
    \A i \in 1..Len(interpreter.gets) :
        LET g == interpreter.gets[i]
            m == MethodOfChain(g.instance.lox_class, g.name)
        IN  ~g.in_fields =>
                /\ g.found <=> m.some
                /\ g.found => g.v.declaration = m.v.declaration

Choices_Run ==
    { Stmt_Print(Expr_Literal(String("one"))),
      Stmt_Return(Expr_Literal(Number(1))),
      Stmt_Block(<<Stmt_Var("a", Expr_Literal(Number(1))),
                   Stmt_Var("a", Expr_Literal(Number(2)))>>),
      Stmt_Print(Expr_Unary("Minus", Expr_Literal(Null))),
      Stmt_Var("v", Expr_Literal(Number(1))),
      Stmt_Print(Expr_Variable("v", 101)) }

\* the sources: whether the scanner and the parser report an error, and the
\* statements the parser returns (it returns the ones it could parse)
Sources_Run ==
    {Source(scan_error, parse_error, p.statements) :
        scan_error \in BOOLEAN, parse_error \in BOOLEAN, p \in Programs(<<>>, Choices_Run)}

InitRun == InitLox(Sources_Run)

SpecRun == InitRun /\ [][Next]_vars

(***************************************************************************)
(* The pipeline (SpecRun)                                                  *)
(***************************************************************************)
\* the interpreter has executed nothing: all it holds, but the output and the
\* locals map the resolver fills, is as constructed
NothingExecuted ==
    [interpreter EXCEPT !.writer = <<>>, !.locals = EmptyMap] = Interpreter_new

\* C10: in one run, the parser's output is used only if the scanner reported no
\* error, the resolver runs only if the parser reported none and the
\* interpreter executes statements only if the resolver reported none; when a
\* phase reports an error no statement is executed and the only output is the
\* diagnostics of that phase.
LaterPhaseRunsOnlyAfterCleanPhase ==
    /\ pc = "parse" => ~had_scan_error
    /\ (pc = "resolve" \/ resolver # Resolver_new(EmptyMap)) =>
          ~had_scan_error /\ ~had_parse_error
    /\ (pc = "interpret" \/ ~NothingExecuted) =>
          ~had_scan_error /\ ~had_parse_error /\ ~had_resolve_error
    /\ had_scan_error => pc = "done" /\ interpreter.writer = <<"SyntaxError">>
    /\ had_parse_error => pc = "done" /\ interpreter.writer = <<"ParseError">>
    /\ had_resolve_error =>
          /\ pc = "done"
          /\ resolver.errors # <<>>
          /\ interpreter.writer = <<error_msg("ResolveError", resolver.errors, 1)>>

\* a run ended by the resolver's diagnostics although its first statement,
\* a print, resolved without error
LaterPhaseRunsOnlyAfterCleanPhase_witness ==
    /\ pc = "done"
    /\ had_resolve_error
    /\ Len(source.statements) >= 2
    /\ source.statements[1].t = "Print"
    /\ Len(resolver.errors) < Len(source.statements)

\* C11: a finished run of a file exits with 65 when a scan, parse or resolve
\* error was reported, with 70 when the program ran and a runtime error was
\* reported, and with 0 only when no error of any phase was reported.
ExitCodeReflectsErrors ==
    pc = "done" =>
        /\ (source.scan_error \/ source.parse_error \/ resolver.errors # <<>>) => run_file = 65
        /\ interpreter.errors # <<>> => run_file = 70
        /\ run_file = 0 => interpreter.errors = <<>>

\* what the statements 1..i of a program of Choices_Run do when executed in
\* order, each on its own: the errors raised, the lines printed and the
\* globals defined
RECURSIVE ExpectedRun(_)
ExpectedRun(i) ==
    IF i = 0 THEN [errors |-> <<>>, writer |-> <<>>, defined |-> {}]
    ELSE LET before == ExpectedRun(i - 1)
             s == source.statements[i]
         IN  CASE s.t = "Var" -> [before EXCEPT !.defined = @ \cup {s.identifier}]
               [] s.t = "Print" /\ s.e.t = "Literal" ->
                     [before EXCEPT !.writer = Append(@, s.e.object.s)]
               [] s.t = "Print" /\ s.e.t = "Unary" ->
                     [before EXCEPT !.errors = Append(@, ObjectError("NegativeError"))]
               [] s.t = "Print" /\ s.e.t = "Variable" ->
                     IF s.e.name \in before.defined
                     THEN [before EXCEPT !.writer = Append(@, "1")]
                     ELSE [before EXCEPT !.errors = Append(@, undefined_variable(s.e.name))]
               [] OTHER -> before

\* C12: interpret() executes every top-level statement in source order; the
\* error of a failing statement is recorded and the next statement still runs,
\* so the recorded errors are the errors of the failing statements in order
\* and the output and the definitions of the other statements take place.
InterpretContinuesAfterError ==
    /\ pc = "interpret" =>
          /\ collected = ExpectedRun(next_stmt - 1).errors
          /\ interpreter.writer = ExpectedRun(next_stmt - 1).writer
          /\ DOMAIN interpreter.frames[GlobalLink].values
                = {"clock"} \cup ExpectedRun(next_stmt - 1).defined
    /\ (pc = "done" /\ ~had_scan_error /\ ~had_parse_error /\ ~had_resolve_error) =>
          /\ next_stmt = Len(source.statements) + 1
          /\ interpreter.errors = ExpectedRun(Len(source.statements)).errors
          /\ SubSeq(interpreter.writer, 1, Len(ExpectedRun(Len(source.statements)).writer))
                = ExpectedRun(Len(source.statements)).writer

\* a finished run whose first and last statements failed and whose second
\* statement, between them, printed
InterpretContinuesAfterError_witness ==
    /\ pc = "done"
    /\ Len(source.statements) = 3
    /\ Len(interpreter.errors) = 2
    /\ interpreter.errors[1] # interpreter.errors[2]
    /\ source.statements[2] = Stmt_Print(Expr_Literal(String("one")))
    /\ interpreter.writer[1] = "one"

(***************************************************************************)
(* Token lists.  A program of SpecParse is up to MaxFragments of the       *)
(* fragments below, or one list of parameters or arguments of a length     *)
(* around MAXIMUM_ARGUMENTS followed by a print statement, then Eof.       *)
(***************************************************************************)
\* print 1 ;                    var a = 1 ;                 a = 3 ;
\* 2 = 1                        ( 1 + 2 nothing ;           ( 1 + 2 1
\* class A { }
\* fun f ( a , b ) { return a ; }          print f ( 1 , 2 ) ;
\* if ( a ) print 1 ; else { a = 2 ; }
\* for ( var i = 0 ; i < 2 ; i = i + 1 ) print i ;
\* while ( false ) print 1 ;
Fragments ==
    LET t(token_type) == Token(token_type, "", 0)
        id(name) == Token("Identifier", name, 0)
        num(n) == Token("Number", ToString(n), n)
    IN  { <<t("Print"), num(1), t("Semicolon")>>,
          <<t("Var"), id("a"), t("Equal"), num(1), t("Semicolon")>>,
          <<id("a"), t("Equal"), num(3), t("Semicolon")>>,
          <<num(2), t("Equal"), num(1)>>,
          <<t("LeftParen"), num(1), t("Plus"), num(2), id("nothing"), t("Semicolon")>>,
          <<t("LeftParen"), num(1), t("Plus"), num(2), num(1)>>,
          <<t("Class"), id("A"), t("LeftBrace"), t("RightBrace")>>,
          <<t("Fun"), id("f"), t("LeftParen"), id("a"), t("Comma"), id("b"), t("RightParen"),
            t("LeftBrace"), t("Return"), id("a"), t("Semicolon"), t("RightBrace")>>,
          <<t("Print"), id("f"), t("LeftParen"), num(1), t("Comma"), num(2), t("RightParen"),
            t("Semicolon")>>,
          <<t("If"), t("LeftParen"), id("a"), t("RightParen"), t("Print"), num(1),
            t("Semicolon"), t("Else"), t("LeftBrace"), id("a"), t("Equal"), num(2),
            t("Semicolon"), t("RightBrace")>>,
          <<t("For"), t("LeftParen"), t("Var"), id("i"), t("Equal"), num(0), t("Semicolon"),
            id("i"), t("Less"), num(2), t("Semicolon"), id("i"), t("Equal"), id("i"),
            t("Plus"), num(1), t("RightParen"), t("Print"), id("i"), t("Semicolon")>>,
          <<t("While"), t("LeftParen"), t("False"), t("RightParen"), t("Print"), num(1),
            t("Semicolon")>> }

\* fun f ( x , .. , x ) { } print 1 ;      and      f ( 1 , .. , 1 ) ; print 1 ;
\* with n entries in the list
LongLists(n) ==
    LET t(token_type) == Token(token_type, "", 0)
        list(entry(_)) == [i \in 1..(2 * n - 1) |-> IF i % 2 = 1 THEN entry((i + 1) \div 2)
                                                      ELSE t("Comma")]
        param(i) == Token("Identifier", "x" \o ToString(i), 0)
        one(i) == Token("Number", "1", 1)
        print == <<t("Print"), Token("Number", "1", 1), t("Semicolon")>>
    IN  { <<t("Fun"), Token("Identifier", "f", 0), t("LeftParen")>>
             \o list(param)
             \o <<t("RightParen"), t("LeftBrace"), t("RightBrace")>> \o print,
          <<Token("Identifier", "f", 0), t("LeftParen")>>
             \o list(one)
             \o <<t("RightParen"), t("Semicolon")>> \o print }

RECURSIVE Flatten(_)
Flatten(seqs) == IF seqs = <<>> THEN <<>> ELSE Head(seqs) \o Flatten(Tail(seqs))

TokenPrograms ==
    {Flatten(seq) \o <<Token("Eof", "", 0)>> :
        seq \in UNION {[1..n -> Fragments] : n \in 0..MaxFragments}}
    \cup {l \o <<Token("Eof", "", 0)>> :
            l \in UNION {LongLists(n) : n \in (MAXIMUM_ARGUMENTS - 1)..(MAXIMUM_ARGUMENTS + 1)}}

\* Lox::default and, in run, an error-free scan and Parser::from(&scanner)
InitParse ==
    /\ parser \in {Parser_new(tokens) : tokens \in TokenPrograms}
    /\ source = Source(FALSE, FALSE, <<>>)
    /\ pc = "parsing"
    /\ had_scan_error = FALSE
    /\ had_parse_error = FALSE
    /\ had_resolve_error = FALSE
    /\ had_runtime_error = FALSE
    /\ interpreter = Interpreter_new
    /\ resolver = Resolver_new(EmptyMap)
    /\ next_stmt = 1
    /\ collected = <<>>
    /\ scanner = Scanner_new(<<>>)
    /\ repl = Repl_new(<<>>)

SpecParse == InitParse /\ [][NextParse]_vars

(***************************************************************************)
(* The parser (SpecParse)                                                  *)
(***************************************************************************)

\* the entries of the one list of a program: its commas and one
ListEntries(tokens) == 1 + Cardinality({i \in DOMAIN tokens : tokens[i].type = "Comma"})

\* C13: a parameter list or an argument list of up to 255 entries parses without
\* a MaximumArguments error and a longer one reports it: once parse() has
\* returned, the errors hold a MaximumArguments exactly when the list of the
\* program has more than MAXIMUM_ARGUMENTS entries.
ArgumentLimitIs255 ==
    pc # "parsing" =>
        ((\E i \in DOMAIN parser.errors : parser.errors[i].type = "MaximumArguments")
            <=> ListEntries(parser.tokens) > MAXIMUM_ARGUMENTS)

\* the position the claim resumes at after a panic error met at position from:
\* behind the first semicolon, or at the first token that starts a statement,
\* or where only Eof remains, whichever comes first
RecoveryPoint(tokens, from) ==
    LET stops(i) == i = Len(tokens)
                    \/ tokens[i].type \in {"Class", "Fun", "Var", "For", "If", "While",
                                           "Print", "Return"}
        first == Min({i \in from..Len(tokens) : stops(i) \/ tokens[i].type = "Semicolon"})
    IN  IF stops(first) THEN first ELSE first + 1

\* the statements of the iterations of parse() that did not fail, in order
RECURSIVE ParsedStatements(_)
ParsedStatements(steps) ==
    IF steps = <<>> THEN <<>>
    ELSE IF Head(steps).ok THEN <<Head(steps).v>> \o ParsedStatements(Tail(steps))
    ELSE ParsedStatements(Tail(steps))

\* C14: after a panic error the parser discards tokens up to the recovery
\* point and resumes there; the error is recorded once, the failed statement
\* is not returned and the statements parsed after the recovery are: every
\* iteration of parse() starts where the one before ended, a failed one with
\* panic_mode ends at the recovery point of the position of its error, its
\* error is in the errors exactly once, and the statements are those of the
\* iterations that did not fail.
SynchronizeResumesParsing ==
    /\ parser.statements = ParsedStatements(parser.steps)
    /\ \A k \in DOMAIN parser.steps :
          /\ parser.steps[k].start = IF k = 1 THEN 1 ELSE parser.steps[k - 1].resumed
          /\ (~parser.steps[k].ok /\ parser.steps[k].v.panic_mode) =>
                /\ parser.steps[k].resumed
                      = RecoveryPoint(parser.tokens, parser.steps[k].failed_at)
                /\ Cardinality({i \in DOMAIN parser.errors :
                                    parser.errors[i] = parser.steps[k].v}) = 1

\* C15: an assignment to a target that is not assignable reports
\* InvalidAssignment without panic mode: the error sits at the Equal token, the
\* iteration of parse() ends right behind the one-token right-hand side with
\* no token discarded, and the next iteration starts there and parses the
\* statement as it parses alone; its statement is returned.
InvalidAssignmentDoesNotPanic ==
    \A k \in DOMAIN parser.steps :
        (~parser.steps[k].ok /\ parser.steps[k].v.type = "InvalidAssignment") =>
            /\ ~parser.steps[k].v.panic_mode
            /\ parser.tokens[parser.steps[k].v.at].type = "Equal"
            /\ parser.steps[k].failed_at = parser.steps[k].v.at + 2
            /\ parser.steps[k].resumed = parser.steps[k].failed_at
            /\ k < Len(parser.steps) =>
                  /\ parser.steps[k + 1].start = parser.steps[k].v.at + 2
                  /\ parser.steps[k + 1].ok
                        = Parser_stmt("declaration",
                                      Parser_new(SubSeq(parser.tokens,
                                                        parser.steps[k].v.at + 2,
                                                        Len(parser.tokens))),
                                      Null).ok
                  /\ parser.steps[k + 1].ok =>
                        \E i \in DOMAIN parser.statements :
                            parser.statements[i] = parser.steps[k + 1].v

\* 2 = 1 and two statements behind it: one error, both statements returned
InvalidAssignmentDoesNotPanic_witness ==
    /\ pc = "done"
    /\ Len(parser.steps) = 3
    /\ ~parser.steps[1].ok /\ parser.steps[1].v.type = "InvalidAssignment"
    /\ parser.steps[2].start = 4 /\ parser.steps[2].ok /\ parser.steps[3].ok
    /\ Len(parser.errors) = 1
    /\ parser.statements = <<parser.steps[2].v, parser.steps[3].v>>
    /\ parser.steps[2].v.t = "Print"

(***************************************************************************)
(* Redeclaration (SpecRedeclare)                                           *)
(***************************************************************************)
\* var g = "first";
Prelude_Redeclare == << Stmt_Var("g", Expr_Literal(String("first"))) >>

\* { var x = 1; var x = 2; }             { fun k() {} fun k() {} }
\* { class K {} class K {} }             fun p(a, a) {}
\* { var v = 1; fun v() {} }             { var x = 1; { var x = 2; print x; } }
\* var g = "second";                     fun g() {}
\* print g;
Choices_Redeclare ==
    LET empty(name) == Stmt_Function(name, <<>>, Stmt_Block(<<>>))
    IN  { Stmt_Block(<<Stmt_Var("x", Expr_Literal(Number(1))),
                       Stmt_Var("x", Expr_Literal(Number(2)))>>),
          Stmt_Block(<<empty("k"), empty("k")>>),
          Stmt_Block(<<Stmt_Class("K", <<>>, <<>>), Stmt_Class("K", <<>>, <<>>)>>),
          Stmt_Function("p", <<"a", "a">>, Stmt_Block(<<>>)),
          Stmt_Block(<<Stmt_Var("v", Expr_Literal(Number(1))), empty("v")>>),
          Stmt_Block(<<Stmt_Var("x", Expr_Literal(Number(1))),
                       Stmt_Block(<<Stmt_Var("x", Expr_Literal(Number(2))),
                                    Stmt_Print(Expr_Variable("x", 111))>>)>>),
          Stmt_Var("g", Expr_Literal(String("second"))),
          empty("g"),
          Stmt_Print(Expr_Variable("g", 112)) }

InitRedeclare == InitLox(Programs(Prelude_Redeclare, Choices_Redeclare))

SpecRedeclare == InitRedeclare /\ [][Next]_vars

\* the names the statements of one scope declare, in order
RECURSIVE DeclaredNames(_)
DeclaredNames(statements) ==
    IF statements = <<>> THEN <<>>
    ELSE (CASE Head(statements).t = "Var" -> <<Head(statements).identifier>>
            [] Head(statements).t \in {"Function", "Class"} -> <<Head(statements).name>>
            [] OTHER -> <<>>)
         \o DeclaredNames(Tail(statements))

\* the name a local scope of the statement declares twice, if one does
RECURSIVE DeclaredTwice(_)
DeclaredTwice(s) ==
    LET twice(names) == {names[i] : i \in {i \in DOMAIN names :
                                              \E j \in 1..(i - 1) : names[j] = names[i]}}
        within(statements) == UNION {DeclaredTwice(statements[i]) : i \in DOMAIN statements}
    IN  CASE s.t = "Block" -> twice(DeclaredNames(s.statements)) \cup within(s.statements)
          [] s.t = "Function" -> twice(s.params) \cup DeclaredTwice(s.body)
          [] s.t = "Class" -> within(s.methods)
          [] OTHER -> {}

\* what the global g holds after the statements: the value of its last declaration
RECURSIVE LastGlobal(_)
LastGlobal(statements) ==
    IF statements = <<>> THEN "none"
    ELSE LET s == statements[Len(statements)]
         IN  CASE s.t = "Var" /\ s.identifier = "g" -> s.expression.object.s
               [] s.t = "Function" /\ s.name = "g" -> "<fn g>"
               [] OTHER -> LastGlobal(SubSeq(statements, 1, Len(statements) - 1))

\* C16: a name declared twice in one local scope (variable, function, class or
\* parameter) is a VarAlreadyExistInScope of the resolver, a global declared
\* again is none and replaces the value at run time: the resolver's errors are
\* one VarAlreadyExistInScope, with the name, for every top-level statement with
\* a local scope that declares a name twice, and for no other; while the
\* interpreter runs, the global g holds the value of its last declaration
\* executed.
RedeclarationIsLocalError ==
    /\ (pc = "resolve" /\ had_parse_error = FALSE) =>
          /\ Len(collected) = Cardinality({i \in 1..(next_stmt - 1) :
                                              DeclaredTwice(source.statements[i]) # {}})
          /\ \A i \in DOMAIN collected :
                /\ collected[i].type = "VarAlreadyExistInScope"
                /\ \E j \in 1..(next_stmt - 1) :
                      collected[i].name \in DeclaredTwice(source.statements[j])
    /\ (pc \in {"interpret", "done"} /\ ~had_resolve_error) =>
          \A i \in DOMAIN source.statements : DeclaredTwice(source.statements[i]) = {}
    /\ (pc = "interpret" /\ next_stmt > 1) =>
          to_string(interpreter.frames[GlobalLink].values["g"])
              = LastGlobal(SubSeq(source.statements, 1, next_stmt - 1))

(***************************************************************************)
(* Assignment at a depth (SpecAssign)                                      *)
(***************************************************************************)
\* var x = "global";
Prelude_Assign == << Stmt_Var("x", Expr_Literal(String("global"))) >>

\* { if (false) var x = 1; x = 2; }       { if (false) var z = 1; z = 2; }
\* { var x = 1; x = 2; print x; }         { var x = 1; { x = 3; print x; } print x; }
\* { var y = 1; fun f() { y = 2; } f(); print y; }
\* x = "set";                             print x;
Choices_Assign ==
    LET unset(name, id) ==
            Stmt_Block(<<Stmt_If(Expr_Literal(Bool(FALSE)),
                                 Stmt_Var(name, Expr_Literal(Number(1))), <<>>),
                         Stmt_Expression(Expr_Assign(name, Expr_Literal(Number(2)), id))>>)
    IN  { unset("x", 121),
          unset("z", 122),
          Stmt_Block(<<Stmt_Var("x", Expr_Literal(Number(1))),
                       Stmt_Expression(Expr_Assign("x", Expr_Literal(Number(2)), 123)),
                       Stmt_Print(Expr_Variable("x", 124))>>),
          Stmt_Block(<<Stmt_Var("x", Expr_Literal(Number(1))),
                       Stmt_Block(<<Stmt_Expression(
                                        Expr_Assign("x", Expr_Literal(Number(3)), 125)),
                                    Stmt_Print(Expr_Variable("x", 126))>>),
                       Stmt_Print(Expr_Variable("x", 127))>>),
          Stmt_Block(<<Stmt_Var("y", Expr_Literal(Number(1))),
                       Stmt_Function("f", <<>>,
                           Stmt_Block(<<Stmt_Expression(
                                            Expr_Assign("y", Expr_Literal(Number(2)), 128))>>)),
                       Stmt_Expression(Expr_Call(Expr_Variable("f", 129), <<>>)),
                       Stmt_Print(Expr_Variable("y", 130))>>),
          Stmt_Expression(Expr_Assign("x", Expr_Literal(String("set")), 131)),
          Stmt_Print(Expr_Variable("x", 132)) }

InitAssign == InitLox(Programs(Prelude_Assign, Choices_Assign))

SpecAssign == InitAssign /\ [][Next]_vars

\* C17: assign_at(name, value, depth) writes only to the frame depth parents out
\* from the innermost frame: for every call, if that frame has no slot for the
\* name the call returned None and the heap, the global frame included, is as
\* before; if it has the slot, the call returned Some and the heap differs
\* from the one before in that slot only.
AssignAtWritesOnlyTheFrameAtDepth ==
    \A i \in DOMAIN interpreter.assigns :
        IF Walk(interpreter.assigns[i].before, interpreter.assigns[i].env,
                interpreter.assigns[i].depth) # NoLink
           /\ interpreter.assigns[i].name
                 \in DOMAIN interpreter.assigns[i].before[
                               Walk(interpreter.assigns[i].before, interpreter.assigns[i].env,
                                    interpreter.assigns[i].depth)].values
        THEN /\ interpreter.assigns[i].returned
             /\ interpreter.assigns[i].after
                  = [interpreter.assigns[i].before
                       EXCEPT ![Walk(interpreter.assigns[i].before,
                                     interpreter.assigns[i].env,
                                     interpreter.assigns[i].depth)]
                                   .values[interpreter.assigns[i].name]
                                = interpreter.assigns[i].value]
        ELSE /\ ~interpreter.assigns[i].returned
             /\ interpreter.assigns[i].after = interpreter.assigns[i].before

(***************************************************************************)
(* Binary operators (SpecOperators)                                        *)
(***************************************************************************)
\* fun make() { fun inner() {} return inner; }
\* var c1 = make();
\* var c2 = make();
Prelude_Operators ==
    << Stmt_Function("make", <<>>,
           Stmt_Block(<<Stmt_Function("inner", <<>>, Stmt_Block(<<>>)),
                        Stmt_Return(Expr_Variable("inner", 133))>>)),
       Stmt_Var("c1", Expr_Call(Expr_Variable("make", 134), <<>>)),
       Stmt_Var("c2", Expr_Call(Expr_Variable("make", 135), <<>>)) >>

\* the operands: the numbers up to MaxNumber, "a", nil, c1, c2 and make
Operands(side) ==
    {Expr_Literal(Number(n)) : n \in 0..MaxNumber}
    \cup {Expr_Literal(String("a")), Expr_Literal(Null),
          Expr_Variable("c1", 140 + side), Expr_Variable("c2", 142 + side),
          Expr_Variable("make", 144 + side)}

\* l / r;   l > r;   l >= r;   l < r;   l <= r;   l == r;   l != r;   l + r;
Choices_Operators ==
    {Stmt_Expression(Expr_Binary(l, operator, r)) :
        l \in Operands(0), r \in Operands(1),
        operator \in {"Slash", "Greater", "GreaterEqual", "Less", "LessEqual",
                      "EqualEqual", "BangEqual", "Plus"}}

\* the prelude and one of the statements
InitOperators ==
    InitLox({Source(FALSE, FALSE, Append(Prelude_Operators, s)) : s \in Choices_Operators})

SpecOperators == InitOperators /\ [][Next]_vars

\* C18: two callables are equal under == only when they are the same function
\* object, and a value equals itself: every == and != applied to two callables
\* gave the Bool of whether the two are the same object, declaration and
\* closure alike.
CallableEqualityIsIdentity ==
    \A i \in DOMAIN interpreter.binaries :
        (/\ interpreter.binaries[i].operator \in {"EqualEqual", "BangEqual"}
         /\ IsCallable(interpreter.binaries[i].lhs)
         /\ IsCallable(interpreter.binaries[i].rhs)) =>
            /\ interpreter.binaries[i].some
            /\ interpreter.binaries[i].v
                 = Bool((interpreter.binaries[i].lhs = interpreter.binaries[i].rhs)
                            <=> interpreter.binaries[i].operator = "EqualEqual")

\* C19: a / b is an error when b is zero or an operand is not a number, and a
\* quotient only for numbers with a divisor that is not zero: every / applied
\* to two numbers with a zero divisor gave an error, to two numbers with
\* another divisor the Number of their quotient, and to any other operands
\* the DivisionError.
DivisionByZeroIsAnError ==
    \A i \in DOMAIN interpreter.binaries :
        interpreter.binaries[i].operator = "Slash" =>
            IF is_number(interpreter.binaries[i].lhs) /\ is_number(interpreter.binaries[i].rhs)
            THEN IF interpreter.binaries[i].rhs.n = 0
                 THEN ~interpreter.binaries[i].some
                 ELSE /\ interpreter.binaries[i].some
                      /\ is_number(interpreter.binaries[i].v)
                      /\ IF "n" \in DOMAIN interpreter.binaries[i].v
                         THEN interpreter.binaries[i].v.n * interpreter.binaries[i].rhs.n
                                = interpreter.binaries[i].lhs.n
                         ELSE /\ interpreter.binaries[i].v.dividend
                                   = interpreter.binaries[i].lhs.n
                              /\ interpreter.binaries[i].v.divisor
                                   = interpreter.binaries[i].rhs.n
            ELSE /\ ~interpreter.binaries[i].some
                 /\ interpreter.binaries[i].v = ObjectError("DivisionError")

\* the usual order of two numbers under a comparison operator
NumericOrder(operator, a, b) ==
    CASE operator = "Less" -> a < b
      [] operator = "LessEqual" -> a <= b
      [] operator = "Greater" -> a > b
      [] operator = "GreaterEqual" -> a >= b

\* C20: <, <=, > and >= on two numbers give the Bool of the usual numeric
\* order, and the ComparisionError when an operand is not a number: so did
\* every comparison operator applied.
ComparisonIsNumericOrder ==
    \A i \in DOMAIN interpreter.binaries :
        interpreter.binaries[i].operator \in {"Less", "LessEqual", "Greater", "GreaterEqual"} =>
            IF is_number(interpreter.binaries[i].lhs) /\ is_number(interpreter.binaries[i].rhs)
            THEN /\ interpreter.binaries[i].some
                 /\ interpreter.binaries[i].v
                      = Bool(NumericOrder(interpreter.binaries[i].operator,
                                          interpreter.binaries[i].lhs.n,
                                          interpreter.binaries[i].rhs.n))
            ELSE /\ ~interpreter.binaries[i].some
                 /\ interpreter.binaries[i].v = ObjectError("ComparisionError")

\* C21: a + b is the sum of two numbers, the concatenation of two strings and
\* the AdditionError for any other operands: so did every + applied.
AdditionIsSumOrConcatenation ==
    \A i \in DOMAIN interpreter.binaries :
        interpreter.binaries[i].operator = "Plus" =>
            CASE is_number(interpreter.binaries[i].lhs) /\ is_number(interpreter.binaries[i].rhs) ->
                    /\ interpreter.binaries[i].some
                    /\ interpreter.binaries[i].v
                         = Number(interpreter.binaries[i].lhs.n + interpreter.binaries[i].rhs.n)
              [] interpreter.binaries[i].lhs.k = "String"
                 /\ interpreter.binaries[i].rhs.k = "String" ->
                    /\ interpreter.binaries[i].some
                    /\ interpreter.binaries[i].v
                         = String(interpreter.binaries[i].lhs.s \o interpreter.binaries[i].rhs.s)
              [] OTHER ->
                    /\ ~interpreter.binaries[i].some
                    /\ interpreter.binaries[i].v = ObjectError("AdditionError")

(***************************************************************************)
(* The prompt (SpecRepl): run_prompt reads up to MaxLines lines.           *)
(***************************************************************************)
ReplLines ==
    { <<>>,
      <<"p", "r", "i", "n", "t", " ", "1">>,
      <<"p", "r", "i", "n", "t", " ", "a", ";">>,
      <<"v", "a", "r", " ", "a", " ", "=", " ", "2", ";">>,
      <<"@">>,
      <<"1", " ", "+">>,
      <<"{", "v", "a", "r", " ", "a", "=", "a", ";", "}">>,
      <<"\"", "a", "\"", " ", "<", " ", "1">> }

\* Lox::default and the lines of the reader
InitRepl ==
    /\ repl \in {Repl_new(lines) : lines \in UNION {[1..n -> ReplLines] : n \in 0..MaxLines}}
    /\ scanner = Scanner_new(<<>>)
    /\ parser = Parser_new(<<Token("Eof", "", 0)>>)
    /\ source = Source(FALSE, FALSE, <<>>)
    /\ pc = "prompt"
    /\ had_scan_error = FALSE
    /\ had_parse_error = FALSE
    /\ had_resolve_error = FALSE
    /\ had_runtime_error = FALSE
    /\ interpreter = Interpreter_new
    /\ resolver = Resolver_new(EmptyMap)
    /\ next_stmt = 1
    /\ collected = <<>>

SpecRepl == InitRepl /\ [][NextRepl]_vars

\* the interpreter's output before line i of the prompt was read
OutputBefore(i) == IF i = 1 THEN 0 ELSE repl.done[i - 1]

\* C22: at the prompt an empty line is not given to the pipeline and produces
\* no output but the next prompt; a line that does not end with ; is run with
\* one appended; and every line read, in error or not, is followed by a prompt.
PromptSkipsEmptyLines ==
    /\ \A i \in DOMAIN repl.ran :
          /\ repl.read[repl.ran[i].line] # <<>>
          /\ repl.ran[i].source
               = IF repl.read[repl.ran[i].line][Len(repl.read[repl.ran[i].line])] = ";"
                 THEN repl.read[repl.ran[i].line]
                 ELSE Append(repl.read[repl.ran[i].line], ";")
    /\ \A i \in DOMAIN repl.done :
          repl.read[i] = <<>> => repl.done[i] = OutputBefore(i)
    /\ pc = "prompt" =>
          /\ Len(repl.done) = Len(repl.read)
          /\ Len(repl.writer) = 1 + Len(repl.read)

(***************************************************************************)
(* Evaluation order (SpecEval): one call or one logical expression after   *)
(* a prelude of functions that print when they run.                        *)
(***************************************************************************)
\* fun one() { print "one"; return 1; }
\* fun two() { print "two"; return 2; }
\* fun pair(a, b) { print "pair"; return a; }
\* class K { init(a) { print "init"; } }
Prelude_Eval ==
    << Stmt_Function("one", <<>>,
           Stmt_Block(<<Stmt_Print(Expr_Literal(String("one"))),
                        Stmt_Return(Expr_Literal(Number(1)))>>)),
       Stmt_Function("two", <<>>,
           Stmt_Block(<<Stmt_Print(Expr_Literal(String("two"))),
                        Stmt_Return(Expr_Literal(Number(2)))>>)),
       Stmt_Function("pair", <<"a", "b">>,
           Stmt_Block(<<Stmt_Print(Expr_Literal(String("pair"))),
                        Stmt_Return(Expr_Variable("a", 151))>>)),
       Stmt_Class("K", <<>>,
           <<Stmt_Function("init", <<"a">>,
                 Stmt_Block(<<Stmt_Print(Expr_Literal(String("init")))>>))>>) >>

\* one(), two(), 3 and the undefined variable nope
Arguments_Eval ==
    { Expr_Call(Expr_Variable("one", 152), <<>>),
      Expr_Call(Expr_Variable("two", 153), <<>>),
      Expr_Literal(Number(3)),
      Expr_Variable("nope", 154) }

\* pair, one, K, clock, nil, "s", one() and the undefined variable nope
Callees_Eval ==
    { Expr_Variable("pair", 155), Expr_Variable("one", 156), Expr_Variable("K", 157),
      Expr_Literal(Null), Expr_Literal(String("s")),
      Expr_Call(Expr_Variable("one", 158), <<>>), Expr_Variable("nope", 159) }

\* one(), two(), nil, false, 0, "", nope, and nil or two()
Operands_Eval ==
    Arguments_Eval
    \cup { Expr_Literal(Null), Expr_Literal(Bool(FALSE)), Expr_Literal(Number(0)),
           Expr_Literal(String("")),
           Expr_Logical(Expr_Literal(Null), "Or", Expr_Call(Expr_Variable("two", 160), <<>>)) }

\* callee(arguments);   print l or r;   print l and r;
Choices_Eval ==
    {Stmt_Expression(Expr_Call(callee, arguments)) :
        callee \in Callees_Eval,
        arguments \in UNION {[1..n -> Arguments_Eval] : n \in 0..MaxArguments}}
    \cup {Stmt_Print(Expr_Logical(l, operator, r)) :
            l \in Operands_Eval, r \in Operands_Eval, operator \in {"Or", "And"}}

\* the prelude and one of the statements
InitEval == InitLox({Source(FALSE, FALSE, Append(Prelude_Eval, s)) : s \in Choices_Eval})

SpecEval == InitEval /\ [][Next]_vars

\* the visits of the operands of the expression of entry k of the history
OperandIndexes(k) ==
    {j \in (interpreter.evaluated[k].first + 1)..(k - 1) :
        /\ interpreter.evaluated[j].depth = interpreter.evaluated[k].depth + 1
        /\ interpreter.evaluated[j].level = interpreter.evaluated[k].level}

\* the same in the order they ended
VisitedOperands(k) ==
    [n \in 1..Cardinality(OperandIndexes(k)) |->
        interpreter.evaluated[CHOOSE j \in OperandIndexes(k) :
                                  Cardinality({i \in OperandIndexes(k) : i < j}) = n - 1]]

\* the calls and class invocations that ended during the visits of a list
RECURSIVE WorkOf(_)
WorkOf(visits) == IF visits = <<>> THEN 0 ELSE Head(visits).work + WorkOf(Tail(visits))

\* C23: in a call the callee is evaluated first; a value that is not callable
\* gives ObjectNotCallable with no argument evaluated; otherwise the arguments
\* are evaluated left to right, each once, and a count that differs from the
\* arity gives NumberArgumentsMismatch with no body executed.
CallEvaluatesCalleeThenArguments ==
    \A k \in DOMAIN interpreter.evaluated :
        interpreter.evaluated[k].e.t = "Call" =>
            LET e == interpreter.evaluated[k].e
                operands == VisitedOperands(k)
            IN  /\ operands # <<>>
                /\ operands[1].e = e.callee
                /\ Len(operands) <= 1 + Len(e.arguments)
                /\ \A n \in 2..Len(operands) :
                      /\ operands[n].e = e.arguments[n - 1]
                      /\ operands[n - 1].ok
                      /\ IsCallable(operands[1].v)
                /\ (operands[1].ok /\ ~IsCallable(operands[1].v)) =>
                      /\ ~interpreter.evaluated[k].ok
                      /\ interpreter.evaluated[k].v
                           = [type |-> "ObjectNotCallable", name |-> to_string(operands[1].v)]
                /\ (operands[1].ok /\ IsCallable(operands[1].v)
                    /\ operands[Len(operands)].ok) =>
                      /\ Len(operands) = 1 + Len(e.arguments)
                      /\ Len(e.arguments) # arity(operands[1].v) =>
                            /\ ~interpreter.evaluated[k].ok
                            /\ interpreter.evaluated[k].v
                                 = [type |-> "NumberArgumentsMismatch",
                                    params |-> arity(operands[1].v),
                                    args |-> Len(e.arguments)]
                            /\ interpreter.evaluated[k].work = WorkOf(operands)

\* pair(one(), two(), 3) ended: three arguments evaluated in order, their two
\* calls made, and no other call for the mismatch
CallEvaluatesCalleeThenArguments_witness ==
    \E k \in DOMAIN interpreter.evaluated :
        /\ interpreter.evaluated[k].e.t = "Call"
        /\ Len(interpreter.evaluated[k].e.arguments) = 3
        /\ Len(VisitedOperands(k)) = 4
        /\ VisitedOperands(k)[1].v.k = "LoxFunction"
        /\ interpreter.evaluated[k].work = 2
        /\ interpreter.writer = <<"one", "two">>
        /\ ~interpreter.evaluated[k].ok

\* C24: a or b and a and b evaluate a once; or with a truthy a, and and with
\* a falsy a, yield the value of a itself and do not evaluate b; otherwise b
\* is evaluated once and its value, as it is, is the result.
LogicalShortCircuits ==
    \A k \in DOMAIN interpreter.evaluated :
        interpreter.evaluated[k].e.t = "Logical" =>
            LET e == interpreter.evaluated[k].e
                operands == VisitedOperands(k)
            IN  /\ operands # <<>>
                /\ operands[1].e = e.left
                /\ operands[1].ok =>
                      IF (e.operator = "Or") = is_truthy(operands[1].v)
                      THEN /\ Len(operands) = 1
                           /\ interpreter.evaluated[k].ok
                           /\ interpreter.evaluated[k].v = operands[1].v
                      ELSE /\ Len(operands) = 2
                           /\ operands[2].e = e.right
                           /\ interpreter.evaluated[k].ok = operands[2].ok
                           /\ interpreter.evaluated[k].v = operands[2].v

\* one() or two() yielded 1 after one() alone ran, and was printed
LogicalShortCircuits_witness ==
    \E k \in DOMAIN interpreter.evaluated :
        /\ interpreter.evaluated[k].e.t = "Logical"
        /\ interpreter.evaluated[k].e.operator = "Or"
        /\ interpreter.evaluated[k].e.right.t = "Call"
        /\ Len(VisitedOperands(k)) = 1
        /\ interpreter.evaluated[k].v = Number(1)
        /\ interpreter.writer = <<"one", "1">>

(***************************************************************************)
(* Returns and initializers (SpecInit)                                     *)
(***************************************************************************)
\* class A { init() { return 1; } }
\* class B { init() { return nil; } }
\* class C { init() { { if (true) return 2; } } }
\* class D { foo() { return 3; } }
\* fun init() { return 4; }
\* class E { init() { fun helper() { return 5; } } }
\* class F { foo() { fun init() { return 6; } } }
\* class G { init() { fun init() { return 7; } } }
\* class H { foo() { fun bar() { return 8; } } }
\* return 9;
Choices_Init ==
    LET return(n) == Stmt_Return(Expr_Literal(Number(n)))
        fun(name, body) == Stmt_Function(name, <<>>, Stmt_Block(<<body>>))
        class(name, method) == Stmt_Class(name, <<>>, <<method>>)
    IN  { class("A", fun("init", return(1))),
          class("B", fun("init", Stmt_Return(Expr_Literal(Null)))),
          class("C", fun("init", Stmt_Block(<<Stmt_If(Expr_Literal(Bool(TRUE)), return(2),
                                                      <<>>)>>))),
          class("D", fun("foo", return(3))),
          fun("init", return(4)),
          class("E", fun("init", fun("helper", return(5)))),
          class("F", fun("foo", fun("init", return(6)))),
          class("G", fun("init", fun("init", return(7)))),
          class("H", fun("foo", fun("bar", return(8)))),
          return(9) }

InitInit == InitLox(Programs(<<>>, Choices_Init))

SpecInit == InitInit /\ [][Next]_vars

\* the values of the return statements of s that are in no function or class
\* declared inside s
RECURSIVE DirectReturns(_)
DirectReturns(s) ==
    CASE s.t = "Return" -> {s.value}
      [] s.t = "Block" -> UNION {DirectReturns(s.statements[i]) : i \in DOMAIN s.statements}
      [] s.t = "If" -> DirectReturns(s.then_branch)
                       \cup UNION {DirectReturns(s.else_branch[i]) : i \in DOMAIN s.else_branch}
      [] s.t = "While" -> DirectReturns(s.body)
      [] OTHER -> {}

\* the values of the return statements of s that are directly in the body of
\* a class method named init
RECURSIVE InitReturns(_)
InitReturns(s) ==
    CASE s.t = "Class" ->
            UNION {(IF s.methods[i].name = "init" THEN DirectReturns(s.methods[i].body) ELSE {})
                   \cup InitReturns(s.methods[i].body) : i \in DOMAIN s.methods}
      [] s.t = "Function" -> InitReturns(s.body)
      [] s.t = "Block" -> UNION {InitReturns(s.statements[i]) : i \in DOMAIN s.statements}
      [] s.t = "If" -> InitReturns(s.then_branch)
                       \cup UNION {InitReturns(s.else_branch[i]) : i \in DOMAIN s.else_branch}
      [] s.t = "While" -> InitReturns(s.body)
      [] OTHER -> {}

\* C25: ReturnInsideInit is reported exactly for a return whose value is not
\* the nil literal and that lies directly in the body of a class method named
\* init: not for one in a function nested in a method, in another method or
\* in a top-level function named init.
ReturnInsideInitOnlyInInitializer ==
    \A i \in DOMAIN resolver.returns :
        resolver.returns[i].reported
            <=> /\ resolver.returns[i].value # Expr_Literal(Null)
                /\ \E j \in DOMAIN source.statements :
                      resolver.returns[i].value \in InitReturns(source.statements[j])

\* C27: after the resolver visited a top-level statement, with an error or
\* without, its scope stack is empty, its function context is the top-level
\* one and its class level is zero.
ResolverReturnsToTopLevel ==
    pc = "resolve" =>
        /\ resolver.scopes = <<>>
        /\ resolver.function_type = "Null"
        /\ resolver.class_level = 0

\* C26: for every variable reference, assignment or this the resolver gave a
\* depth, the frame that many parents out from the current frame, when the
\* interpreter evaluates it, exists and holds the name: the frame read or
\* written is that frame, never the global frame reached by falling through.
DepthLeadsToTheDeclaringFrame ==
    \A l \in interpreter.lookups :
        l.resolved =>
            /\ l.walked # NoLink
            /\ l.binding = l.walked

\* C28: Parser::parse terminates: every iteration of its loop consumes at
\* least one token, so it ends behind the position it started at.
ParseIterationConsumesAToken ==
    \A k \in DOMAIN parser.steps : parser.steps[k].resumed > parser.steps[k].start

(***************************************************************************)
(* The scanner (SpecScan): scan_tokens on every source of up to MaxChars   *)
(* characters of a small alphabet.                                         *)
(***************************************************************************)
Characters == {"a", "_", "1", ".", "\"", "=", "/", "\n", "@", ";"}

\* Lox::default and, in run, Scanner::new(source)
InitScan ==
    /\ scanner \in {Scanner_new(chars) :
                        chars \in UNION {[1..n -> Characters] : n \in 0..MaxChars}}
    /\ repl = Repl_new(<<>>)
    /\ parser = Parser_new(<<Token("Eof", "", 0)>>)
    /\ source = Source(FALSE, FALSE, <<>>)
    /\ pc = "scanning"
    /\ had_scan_error = FALSE
    /\ had_parse_error = FALSE
    /\ had_resolve_error = FALSE
    /\ had_runtime_error = FALSE
    /\ interpreter = Interpreter_new
    /\ resolver = Resolver_new(EmptyMap)
    /\ next_stmt = 1
    /\ collected = <<>>

SpecScan == InitScan /\ [][NextScan]_vars

\* C29: scan_tokens terminates on every source, identifiers with underscores
\* included: every iteration of its loop consumes at least one character; each
\* lexical error is recorded and the scan goes on; and the token list it
\* returns ends with Eof, its only Eof.
ScanTokensTerminates ==
    /\ \A k \in DOMAIN scanner.steps : scanner.steps[k].after < scanner.steps[k].before
    /\ Len(scanner.errors) = Cardinality({k \in DOMAIN scanner.steps : ~scanner.steps[k].ok})
    /\ pc \in {"parsing", "done"} =>
          /\ unread(scanner) = 0
          /\ {i \in DOMAIN scanner.tokens : scanner.tokens[i].type = "Eof"}
                = {Len(scanner.tokens)}

(***************************************************************************)
(* Instances as handles (SpecInstance)                                     *)
(***************************************************************************)
\* class Box { get() { return this.v; } put(x) { this.v = x; } }
\* fun store(box, x) { box.v = x; }
\* var a = Box();   var b = a;   var c = Box();   var m = a.get;
Prelude_Instance ==
    << Stmt_Class("Box", <<>>,
           << Stmt_Function("get", <<>>,
                  Stmt_Block(<<Stmt_Return(Expr_Get(Expr_This(171), "v"))>>)),
              Stmt_Function("put", <<"x">>,
                  Stmt_Block(<<Stmt_Expression(
                                   Expr_Set(Expr_This(172), "v", Expr_Variable("x", 173)))>>)) >>),
       Stmt_Function("store", <<"box", "x">>,
           Stmt_Block(<<Stmt_Expression(
                            Expr_Set(Expr_Variable("box", 174), "v", Expr_Variable("x", 175)))>>)),
       Stmt_Var("a", Expr_Call(Expr_Variable("Box", 176), <<>>)),
       Stmt_Var("b", Expr_Variable("a", 177)),
       Stmt_Var("c", Expr_Call(Expr_Variable("Box", 178), <<>>)),
       Stmt_Var("m", Expr_Get(Expr_Variable("a", 179), "get")) >>

\* a.v = 1;   store(b, 2);   c.put(3);   b.put(4);
\* print b.v;   print a.get();   print c.v;   print m();
Choices_Instance ==
    { Stmt_Expression(Expr_Set(Expr_Variable("a", 180), "v", Expr_Literal(Number(1)))),
      Stmt_Expression(Expr_Call(Expr_Variable("store", 181),
                                <<Expr_Variable("b", 182), Expr_Literal(Number(2))>>)),
      Stmt_Expression(Expr_Call(Expr_Get(Expr_Variable("c", 183), "put"),
                                <<Expr_Literal(Number(3))>>)),
      Stmt_Expression(Expr_Call(Expr_Get(Expr_Variable("b", 184), "put"),
                                <<Expr_Literal(Number(4))>>)),
      Stmt_Print(Expr_Get(Expr_Variable("b", 185), "v")),
      Stmt_Print(Expr_Call(Expr_Get(Expr_Variable("a", 186), "get"), <<>>)),
      Stmt_Print(Expr_Get(Expr_Variable("c", 187), "v")),
      Stmt_Print(Expr_Call(Expr_Variable("m", 188), <<>>)) }

InitInstance == InitLox(Programs(Prelude_Instance, Choices_Instance))

SpecInstance == InitInstance /\ [][Next]_vars

\* the sets, among the first n, of the field name of the instance of that id
SetsOf(id, name, n) ==
    {j \in 1..n : /\ interpreter.sets[j].instance.id = id
                  /\ interpreter.sets[j].name = name}

\* C30: instances are handles onto one field table: every get of a field of
\* an instance finds the value of the last set of that field on the instance
\* of that id, through whichever variable, argument or this either was made,
\* and finds no field when there was none; and a set changes the table of no
\* instance of another id.
InstancesShareOneFieldTable ==
    /\ \A i \in DOMAIN interpreter.gets :
          LET g == interpreter.gets[i]
          IN  /\ g.in_fields <=> SetsOf(g.instance.id, g.name, g.sets) # {}
              /\ g.in_fields =>
                    /\ g.found
                    /\ g.v = interpreter.sets[
                                 CHOOSE j \in SetsOf(g.instance.id, g.name, g.sets) :
                                     \A k \in SetsOf(g.instance.id, g.name, g.sets) : k <= j].value
    /\ \A j \in DOMAIN interpreter.sets :
          /\ DOMAIN interpreter.sets[j].after = DOMAIN interpreter.sets[j].before
          /\ \A other \in DOMAIN interpreter.sets[j].before :
                other.id # interpreter.sets[j].instance.id =>
                    interpreter.sets[j].after[other] = interpreter.sets[j].before[other]

\* store(b, 2) wrote through the argument, c.put(3) through this, and m(), the
\* method bound to a before, read 2 through this
InstancesShareOneFieldTable_witness ==
    /\ Len(interpreter.sets) = 2
    /\ interpreter.sets[1].value = Number(2)
    /\ interpreter.sets[2].value = Number(3)
    /\ interpreter.sets[1].instance.id # interpreter.sets[2].instance.id
    /\ interpreter.writer = <<"2">>
    /\ \E i \in DOMAIN interpreter.gets :
          /\ interpreter.gets[i].name = "v"
          /\ interpreter.gets[i].sets = 2
          /\ interpreter.gets[i].v = Number(2)
    /\ \E p \in DOMAIN interpreter.prints :
          interpreter.prints[p].e = Expr_Call(Expr_Variable("m", 188), <<>>)

====
